---- MODULE Spec2Model ----
(***************************************************************************)
(* Model of the message dispatcher: the sliding-window rate limiter and    *)
(* its retry queue (rateLimiter), the production send function             *)
(* (index.js sendMessage), the recurring scheduler's batch                 *)
(* (Scheduler.executeSchedule) and the one-time scheduler                  *)
(* (OneTimeScheduler).                                                     *)
(*                                                                         *)
(* Time is in milliseconds.  JavaScript runs each handler to its next      *)
(* await of real I/O (the transport send) or of a timer (the 3 s delay)    *)
(* without interleaving; one action of the model is one such run.  An      *)
(* await of an already settled promise only yields to the microtask queue  *)
(* and is part of the same action.  Date.now() does not advance inside an  *)
(* action.                                                                 *)
(***************************************************************************)
EXTENDS Integers, Sequences, FiniteSets, TLC

(* ------------------------------ bounds -------------------------------- *)
MaxTicks == 2
MaxRecords == 3
MaxFires == 4
MaxFailures == 1
NumBatches == 2
NumDrains == 2
MaxReady == 2
MaxTasks == 3
MaxTaskFires == 1
NumRestarts == 2
MaxReinitTimers == 1
MaxBatchFires == 2

(* ------------------------- program constants -------------------------- *)
(* config.rateLimit as the checks below configure it by default *)
DefaultLimits == [perMinute |-> 2, perHour |-> 3, perRecipient |-> 1]
MinuteMs == 60000
HourMs == 3600000
StaleMs == 3600000
DelayMs == 3000
DrainIntervalMs == 30000
PollIntervalMs == 60000
ReinitDelayMs == 5000

(* config.reconnection; backoffMultiplier 1.5 is the fraction 3/2 *)
MaxRetries == 10
InitialDelay == 5000
MaxDelay == 60000
MultiplierNum == 3
MultiplierDen == 2

(* the clock advances by one of these amounts *)
TickSteps == {500, 60000, 3600000}
DeliverySteps == {3000, 60000, 3600000}

(* concurrent executeSchedule / checkPendingMessages calls, processQueue calls *)
BatchIds == 1..NumBatches
DrainIds == 1..NumDrains
(* the OneTimeScheduler objects, one per 'ready' event of the client *)
InstanceIds == 1..MaxReady
(* concurrent restartBrowser calls *)
RestartIds == 1..NumRestarts

(* Phone numbers as the schedules carry them: the digits, and whether the *)
(* string already includes '@c.us'.                                       *)
Digits == {"111", "222"}
Numbers == [digits : Digits, suffix : BOOLEAN]
NoRecipient == [digits |-> "", suffix |-> FALSE]
N1 == [digits |-> "111", suffix |-> FALSE]
N1c == [digits |-> "111", suffix |-> TRUE]
N2c == [digits |-> "222", suffix |-> TRUE]
N3c == [digits |-> "333", suffix |-> TRUE]

(* index.js: number.includes('@c.us') ? number : `${number}@c.us` *)
ChatId(number) == IF number.suffix THEN number ELSE [number EXCEPT !.suffix = TRUE]

VARIABLES
  limits,          \* config.rateLimit, fixed when the process starts
  now,             \* Date.now()
  ticks,           \* number of clock advances so far (bounds the run)
  globalHistory,   \* RateLimiter.globalHistory: [{timestamp, count}]
  messageHistory,  \* RateLimiter.messageHistory: phone -> [{timestamp, count}]
  queuedMessages,  \* RateLimiter.queuedMessages
  recorded,        \* history: the recordSent calls made through the API
  lastCheck,       \* the result of a canSend call made at this instant, if any
  batches,         \* the running executeSchedule / checkPendingMessages calls
  drains,          \* the running processQueue calls
  pendingMessages, \* OneTimeScheduler.pendingMessages, per scheduler object
  readies,         \* number of 'ready' events so far: the scheduler objects that exist
  store,           \* the contents of one-time-messages.json
  saveDue,         \* per scheduler object: its 60 s save interval is due
  selected,        \* history: per one-time job, how often a poll selected it
  configSchedules, \* config.schedules, fixed when the process starts
  isRunning,       \* Scheduler.isRunning
  jobs,            \* Scheduler.jobs: the Map's entries [id, task, schedule] in insertion order
  tasks,           \* the node-cron tasks created so far: [schedule, live]
  lastRejected,    \* history: the ids of the definitions the latest Scheduler call rejected
  phase,           \* the process: "running", "stopping" (gracefulShutdown awaits) or "exited"
  pollOn,          \* OneTimeScheduler.checkInterval is set, for each scheduler object
  isRestarting,    \* BrowserManager.isRestarting
  restartAttempts, \* BrowserManager.restartAttempts
  browser,         \* BrowserManager.browser is not null
  lastRestartTime, \* BrowserManager.lastRestartTime, NoTime for null
  restarts,        \* the running restartBrowser calls
  reinitTimers,    \* index.js: the due times of the pending 5 s client.initialize() timers
  looseInits,      \* index.js: client.initialize() calls in flight outside restartBrowser
  supEvent,        \* last step: the client event the supervisor's listener handled
  drainElapsed,    \* time since the 30 s processQueue interval last fired, up to 30 s
  pollElapsed,     \* per scheduler object: time since its last poll, up to 60 s
  fires,           \* number of cron fires and one-time jobs so far (bounds the run)
  failures,        \* number of transport sends that failed so far (bounds the run)
  sends,           \* history: the transport sends that succeeded in the last minute
  items,           \* history: per queued delivery, how often its sendFn was invoked
  lost,            \* last step: how queued deliveries left the queue unsent
  denials,         \* last step: the canSend denials met by the batch
  thrown,          \* last step: where a denial was thrown and caught as a failure
  completed        \* last step: the aggregates of the batches that ended

MessagesPerMinute == limits.perMinute
MessagesPerHour == limits.perHour
PerRecipientLimit == limits.perRecipient

cfVars == <<limits>>
svVars == <<readies, store, saveDue, selected>>
scVars == <<configSchedules, isRunning, jobs, tasks, lastRejected>>
suVars == <<isRestarting, restartAttempts, browser, lastRestartTime, restarts, reinitTimers,
            looseInits, supEvent>>
lcVars == <<phase, pollOn>>
restVars == <<cfVars, scVars, suVars, lcVars>>
rlVars == <<globalHistory, messageHistory, queuedMessages, recorded>>
dvVars == <<batches, drains, pendingMessages, drainElapsed, pollElapsed, fires, failures,
            sends, items, lost, denials, thrown, completed>>
vars == <<now, ticks, lastCheck, rlVars, dvVars, svVars, restVars>>

(* ---------------------------- helpers --------------------------------- *)
RECURSIVE SumCount(_)
SumCount(h) == IF h = <<>> THEN 0 ELSE Head(h).count + SumCount(Tail(h))

After(h, t) == SelectSeq(h, LAMBDA e : e.timestamp > t)

Min(a, b) == IF a < b THEN a ELSE b

FloorSeconds(ms) == ms \div 1000

(* Math.ceil(ms / 1000) *)
CeilSeconds(ms) == IF ms % 1000 = 0 THEN ms \div 1000 ELSE (ms \div 1000) + 1

Has(mh, k) == k \in DOMAIN mh

Allow == [allowed |-> TRUE, reason |-> "none", waitTime |-> 0]
Deny(reason, waitMs) == [allowed |-> FALSE, reason |-> reason, waitTime |-> CeilSeconds(waitMs)]

(* waitTime from the oldest sample of the window, or the whole window *)
WaitMs(h, windowMs, t) == IF h # <<>> THEN windowMs - (t - h[1].timestamp) ELSE windowMs

(* canSend with the per-recipient check counting the global window *)
CanSendSharedWindow(gh, mh, recipient, t) ==
  LET gh1 == After(gh, t - MinuteMs)
      hourHistory == After(gh1, t - HourMs)
      mh1 == IF recipient # NoRecipient /\ ~Has(mh, recipient)
               THEN mh @@ (recipient :> <<>>) ELSE mh
      recent == IF recipient # NoRecipient THEN gh1 ELSE <<>>
  IN  IF SumCount(gh1) >= MessagesPerMinute
        THEN [res |-> Deny("minute", WaitMs(gh1, MinuteMs, t)), gh |-> gh1, mh |-> mh]
      ELSE IF SumCount(hourHistory) >= MessagesPerHour
        THEN [res |-> Deny("hour", WaitMs(hourHistory, HourMs, t)), gh |-> gh1, mh |-> mh]
      ELSE IF recipient # NoRecipient /\ SumCount(recent) >= PerRecipientLimit
        THEN [res |-> Deny("recipient", WaitMs(recent, MinuteMs, t)), gh |-> gh1, mh |-> mh1]
      ELSE [res |-> Allow, gh |-> gh1, mh |-> mh1]

(* RateLimiter.canSend: the result and the histories it leaves behind *)
CanSend(gh, mh, recipient, t) ==
  LET gh1 == After(gh, t - MinuteMs)
      hourHistory == After(gh1, t - HourMs)
      mh1 == IF recipient # NoRecipient /\ ~Has(mh, recipient)
               THEN mh @@ (recipient :> <<>>) ELSE mh
      recent == IF recipient # NoRecipient THEN After(mh1[recipient], t - MinuteMs) ELSE <<>>
  IN  IF SumCount(gh1) >= MessagesPerMinute
        THEN [res |-> Deny("minute", WaitMs(gh1, MinuteMs, t)), gh |-> gh1, mh |-> mh]
      ELSE IF SumCount(hourHistory) >= MessagesPerHour
        THEN [res |-> Deny("hour", WaitMs(hourHistory, HourMs, t)), gh |-> gh1, mh |-> mh]
      ELSE IF recipient # NoRecipient /\ SumCount(recent) >= PerRecipientLimit
        THEN [res |-> Deny("recipient", WaitMs(recent, MinuteMs, t)), gh |-> gh1, mh |-> mh1]
      ELSE [res |-> Allow, gh |-> gh1, mh |-> mh1]

(* RateLimiter.recordSent *)
RecordSent(gh, mh, recipient, t) ==
  LET sample == [timestamp |-> t, count |-> 1]
      gh1 == Append(gh, sample)
      mh1 == IF recipient = NoRecipient THEN mh
             ELSE IF Has(mh, recipient)
               THEN [mh EXCEPT ![recipient] = Append(@, sample)]
               ELSE mh @@ (recipient :> <<sample>>)
      keep == {p \in DOMAIN mh1 : After(mh1[p], t - HourMs) # <<>>}
  IN  [gh |-> After(gh1, t - HourMs),
       mh |-> [p \in keep |-> After(mh1[p], t - HourMs)]]

FirstIdle(procs) == CHOOSE p \in DOMAIN procs :
  procs[p].pc = "idle" /\ \A o \in DOMAIN procs : procs[o].pc = "idle" => p <= o

(* ------------------------ schedule definitions ------------------------- *)
(* A definition as schedules.json gives it: recipient is a string or      *)
(* missing (NoRecipient), recipients an array or missing; a missing id,   *)
(* message or cron is the empty string.                                   *)
Undefined == [defined |-> FALSE, list |-> <<>>]
ListOf(rs) == [defined |-> TRUE, list |-> rs]
Schedule(id, recipient, recipients, message) ==
  [id |-> id, recipient |-> recipient, recipients |-> recipients, message |-> message,
   cron |-> "0 9 * * *", enabled |-> TRUE]

(* node-cron's validate *)
ValidCronExpressions == {"0 9 * * *"}
CronValidate(expression) == expression \in ValidCronExpressions

(* the schedules of the delivery checks, and three for the table checks *)
DefaultSchedules == <<Schedule("daily", NoRecipient, ListOf(<<N1, N2c>>), "m1"),
                      Schedule("weekly", N1, Undefined, "m1")>>
Morning1 == Schedule("morning", N1, Undefined, "m1")
Morning2 == Schedule("morning", NoRecipient, ListOf(<<N2c>>), "m2")
Evening == Schedule("evening", N1, Undefined, "m1")

(* a definition with one required field missing or with a malformed cron *)
Broken(s) ==
  {[s EXCEPT !.id = ""],
   [s EXCEPT !.recipient = NoRecipient, !.recipients = Undefined],
   [s EXCEPT !.recipient = NoRecipient, !.recipients = ListOf(<<>>)],
   [s EXCEPT !.message = ""],
   [s EXCEPT !.cron = ""],
   [s EXCEPT !.cron = "every day"]}

(* the definitions addSchedule is called with *)
ApiSchedules == {Morning1, Morning2, Evening} \cup Broken(Morning1)

(* the contents of schedules.json *)
ConfigChoices ==
  {<<Morning1, Morning2>>,
   <<Morning1, [Evening EXCEPT !.enabled = FALSE], [Morning2 EXCEPT !.cron = "every day"]>>}

(* schedule.recipients || [schedule.recipient] *)
RecipientsOf(s) == IF s.recipients.defined THEN s.recipients.list ELSE <<s.recipient>>

(* an empty recipients array counts as a recipient *)
HasRecipientOrAnyList(s) == s.recipient # NoRecipient \/ s.recipients.defined

(* schedule.recipient || (schedule.recipients && schedule.recipients.length > 0) *)
HasRecipient(s) ==
  s.recipient # NoRecipient \/ (s.recipients.defined /\ Len(s.recipients.list) > 0)

(* Map.has, Map.get, Map.delete and Map.set on the entries of Scheduler.jobs *)
JobsHas(entries, id) == \E k \in 1..Len(entries) : entries[k].id = id
JobsGet(entries, id) == entries[CHOOSE k \in 1..Len(entries) : entries[k].id = id]
JobsDelete(entries, id) == SelectSeq(entries, LAMBDA e : e.id # id)
JobsSet(entries, entry) ==
  IF JobsHas(entries, entry.id)
    THEN [k \in 1..Len(entries) |-> IF entries[k].id = entry.id THEN entry ELSE entries[k]]
    ELSE Append(entries, entry)

(* job.stop(); job.destroy() *)
StopTask(ts, t) == [ts EXCEPT ![t].live = FALSE]

(* the entry is deleted and its timer left running *)
ForgetEntry(sc, id) == [sc EXCEPT !.jobs = JobsDelete(@, id)]

(* Scheduler.removeSchedule on the table sc = [jobs, tasks, rejected] *)
RemoveScheduleOp(sc, id) ==
  IF JobsHas(sc.jobs, id)
    THEN [sc EXCEPT !.tasks = StopTask(@, JobsGet(sc.jobs, id).task),
                    !.jobs = JobsDelete(@, id)]
    ELSE sc

(* addSchedule installs the new timer and leaves the old one running *)
ReplaceKeepingOldTimer(sc, id) == [sc EXCEPT !.jobs = JobsDelete(@, id)]

(* addSchedule: remove the existing job of this id, if any *)
ReplaceExisting(sc, id) == RemoveScheduleOp(sc, id)

(* Scheduler.addSchedule *)
AddScheduleOp(sc, s) ==
  IF s.id = "" \/ ~HasRecipient(s) \/ s.message = "" \/ s.cron = ""
    THEN [sc EXCEPT !.rejected = @ \cup {s.id}]
  ELSE IF ~CronValidate(s.cron)
    THEN [sc EXCEPT !.rejected = @ \cup {s.id}]
  ELSE
    LET sc1 == IF JobsHas(sc.jobs, s.id) THEN ReplaceExisting(sc, s.id) ELSE sc
        task == Len(sc1.tasks) + 1
    IN  [sc1 EXCEPT !.tasks = Append(@, [schedule |-> s, live |-> TRUE]),
                    !.jobs = JobsSet(@, [id |-> s.id, task |-> task, schedule |-> s])]

(* every definition of the configuration is registered *)
EnabledOrNot(s) == TRUE

(* Scheduler.start: if (schedule.enabled) *)
IsEnabled(s) == s.enabled

(* the loop of Scheduler.start over config.schedules *)
RECURSIVE StartAll(_, _)
StartAll(sc, schedules) ==
  IF schedules = <<>> THEN sc
  ELSE IF IsEnabled(Head(schedules))
    THEN StartAll(AddScheduleOp(sc, Head(schedules)), Tail(schedules))
    ELSE StartAll(sc, Tail(schedules))

(* the loop of Scheduler.stop over the entries *)
RECURSIVE StopAll(_, _)
StopAll(ts, entries) ==
  IF entries = <<>> THEN ts ELSE StopAll(StopTask(ts, Head(entries).task), Tail(entries))

(* Scheduler.getSchedules *)
GetSchedules(entries) ==
  [k \in 1..Len(entries) |->
     [id |-> entries[k].schedule.id, recipient |-> entries[k].schedule.recipient,
      cron |-> entries[k].schedule.cron, enabled |-> TRUE]]

EmptyTable == [jobs |-> <<>>, tasks |-> <<>>, rejected |-> {}]

(* ------------------------- the supervisor ------------------------------ *)
NoTime == -1
IdleRestart == [pc |-> "idle", attempt |-> 0, delay |-> [num |-> 0, den |-> 1], wakeAt |-> 0]
NoEvent == [kind |-> "none", reason |-> "", restartable |-> FALSE, latched |-> FALSE,
            started |-> FALSE,
            attemptsBefore |-> 0, attemptsAfter |-> 0]

RECURSIVE Power(_, _)
Power(x, k) == IF k = 0 THEN 1 ELSE x * Power(x, k - 1)

(* the first wait is already one multiplication step long *)
BackoffDelayFromNextStep(attempts) ==
  LET num == InitialDelay * Power(MultiplierNum, attempts)
      den == Power(MultiplierDen, attempts)
  IN  IF num <= MaxDelay * den THEN [num |-> num, den |-> den] ELSE [num |-> MaxDelay, den |-> 1]

(* Math.min(baseDelay * Math.pow(multiplier, attempts - 1), maxDelay), as *)
(* the exact fraction num / den                                           *)
BackoffDelay(attempts) ==
  LET num == InitialDelay * Power(MultiplierNum, attempts - 1)
      den == Power(MultiplierDen, attempts - 1)
  IN  IF num <= MaxDelay * den THEN [num |-> num, den |-> den] ELSE [num |-> MaxDelay, den |-> 1]

(* sleep(ms): setTimeout truncates its delay to whole milliseconds *)
TimerMs(delay) == delay.num \div delay.den

(* String.prototype.includes on the reasons and messages the client emits *)
Reasons == {"NAVIGATION", "CONFLICT", "LOGOUT", "Protocol error: Target closed.", "TIMEOUT"}
ErrorMessages == {"Protocol error: Target closed.", "read ECONNRESET", "Evaluation failed"}
Includes(text, pattern) ==
  \/ text = pattern
  \/ text = "Protocol error: Target closed." /\ pattern \in {"Target closed", "Protocol error"}
  \/ text = "read ECONNRESET" /\ pattern = "ECONNRESET"

(* every disconnect is taken for a transient one *)
ShouldRestartWhateverReason(reason) == TRUE

(* handleDisconnection: shouldRestart *)
ShouldRestart(reason) ==
  \E r \in {"NAVIGATION", "CONFLICT", "browser disconnected", "Target closed"} : Includes(reason, r)

(* BrowserManager.isBrowserError: the patterns match whatever the case *)
IsBrowserError(message) ==
  \E pattern \in {"Target closed", "Session closed", "Protocol error", "Navigation timeout",
                  "browser disconnected", "ECONNRESET", "Connection closed"} :
     Includes(message, pattern)

(* restartBrowser gives up only beyond the maximum *)
AttemptsExhaustedBeyond(attempts) == attempts > MaxRetries

(* restartBrowser: this.restartAttempts >= this.maxRestartAttempts *)
AttemptsExhausted(attempts) == attempts >= MaxRetries

Supervisor == [isRestarting |-> isRestarting, restartAttempts |-> restartAttempts,
               lastRestartTime |-> lastRestartTime, restarts |-> restarts]

(* restartBrowser up to its first await: the page list of the old browser, *)
(* or the sleep when there is no browser                                   *)
RestartBrowserOp(su) ==
  IF su.isRestarting THEN su
  ELSE IF AttemptsExhausted(su.restartAttempts) THEN su
  ELSE LET r == FirstIdle(su.restarts)
           attempt == su.restartAttempts + 1
           delay == BackoffDelay(attempt)
       IN  [su EXCEPT !.isRestarting = TRUE,
                      !.restartAttempts = attempt,
                      !.restarts[r] = [pc |-> IF browser THEN "closing" ELSE "sleeping",
                                       attempt |-> attempt, delay |-> delay,
                                       wakeAt |-> IF browser THEN 0 ELSE now + TimerMs(delay)]]

(* the 'ready' listeners leave the attempt counter as it is *)
OnReadyKeepingAttempts(su) == su

(* index.js 'ready': browserMgr.restartAttempts = 0, and the 'ready' *)
(* listener of BrowserManager: this.restartAttempts = 0              *)
OnReady(su) == [su EXCEPT !.restartAttempts = 0]

(* the latch stays set when client.initialize() throws *)
SettleOnSuccessOnly(su, r, ok) ==
  [su EXCEPT !.lastRestartTime = IF ok THEN now ELSE @,
             !.isRestarting = IF ok THEN FALSE ELSE @,
             !.restarts[r] = IdleRestart]

(* restartBrowser after client.initialize() settled: lastRestartTime on *)
(* success, the catch on failure, and the finally                       *)
Settle(su, r, ok) ==
  [su EXCEPT !.lastRestartTime = IF ok THEN now ELSE @,
             !.isRestarting = FALSE,
             !.restarts[r] = IdleRestart]

(* ------------------------- the jobs file ------------------------------- *)
(* JSON.stringify(pendingMessages): per job the text of its properties *)
(* in insertion order, each a name and a value                         *)
JsonStringify(msgs) ==
  [k \in 1..Len(msgs) |->
     << <<"id", msgs[k].id>>, <<"recipients", msgs[k].recipients>>,
        <<"sendAt", msgs[k].sendAt>> >>]

(* the value of the property called name in the text of one object *)
JsonProperty(object, name) ==
  object[CHOOSE p \in 1..Len(object) : object[p][1] = name][2]

(* JSON.parse(data) *)
JsonParse(text) ==
  [k \in 1..Len(text) |->
     [id |-> JsonProperty(text[k], "id"), recipients |-> JsonProperty(text[k], "recipients"),
      sendAt |-> JsonProperty(text[k], "sendAt")]]

(* ------------------------------ state --------------------------------- *)
NoCheck == [recipient |-> NoRecipient, made |-> FALSE, res |-> Allow]

(* a running executeSchedule or checkPendingMessages; open: a recipient  *)
(* loop has begun; directTo, queuedTo, droppedTo, refusedTo, faultedTo:  *)
(* history, what became of the recipients of the loop so far             *)
NoHistory == [directTo |-> <<>>, queuedTo |-> <<>>, droppedTo |-> <<>>, refusedTo |-> <<>>,
              faultedTo |-> <<>>]
IdleBatch == [pc |-> "idle", kind |-> "none", open |-> FALSE, job |-> 0,
              recipients |-> <<>>, idx |-> 0,
              successCount |-> 0, failCount |-> 0, wakeAt |-> 0, todo |-> <<>>,
              did |-> NoHistory, inFlight |-> 0]
IdleDrain == [pc |-> "idle", toProcess |-> <<>>]

(* the state once the first 'ready' handler has constructed the schedulers, *)
(* under rate limits l and with the jobs file holding stored               *)
InitCore(l, stored) ==
  /\ limits = l
  /\ store = JsonStringify(stored)
  /\ phase = "running"
  /\ pollOn = [i \in InstanceIds |-> i = 1]
  /\ readies = 1
  /\ saveDue = [i \in InstanceIds |-> FALSE]
  /\ selected = << >>
  /\ now = 0
  /\ ticks = 0
  /\ globalHistory = <<>>
  /\ messageHistory = << >>
  /\ queuedMessages = <<>>
  /\ recorded = <<>>
  /\ lastCheck = NoCheck
  /\ batches = [b \in BatchIds |-> IdleBatch]
  /\ drains = [d \in DrainIds |-> IdleDrain]
  /\ pendingMessages = [i \in InstanceIds |-> IF i = 1 THEN stored ELSE <<>>]
  /\ drainElapsed = 0
  /\ pollElapsed = [i \in InstanceIds |-> IF i = 1 THEN PollIntervalMs ELSE 0]
  /\ fires = 0
  /\ failures = 0
  /\ sends = <<>>
  /\ items = << >>
  /\ lost = {}
  /\ denials = {}
  /\ thrown = {}
  /\ completed = {}

(* the Scheduler started on the configured schedules *)
InitStarted ==
  /\ configSchedules = DefaultSchedules
  /\ isRunning = TRUE
  /\ jobs = StartAll(EmptyTable, DefaultSchedules).jobs
  /\ tasks = StartAll(EmptyTable, DefaultSchedules).tasks
  /\ lastRejected = {}

(* the supervisor after attempts restarts, none of them running *)
InitSupervisor(attempts, hasBrowser) ==
  /\ isRestarting = FALSE
  /\ restartAttempts = attempts
  /\ browser = hasBrowser
  /\ lastRestartTime = NoTime
  /\ restarts = [r \in RestartIds |-> IdleRestart]
  /\ reinitTimers = <<>>
  /\ looseInits = 0
  /\ supEvent = NoEvent

InitWith(l, stored) == InitCore(l, stored) /\ InitStarted /\ InitSupervisor(0, TRUE)

Init == InitWith(DefaultLimits, <<>>)

Tick(d) ==
  /\ ticks < MaxTicks
  /\ ticks' = ticks + 1
  /\ now' = now + d
  /\ lastCheck' = NoCheck
  /\ sends' = SelectSeq(sends, LAMBDA e : e.timestamp > now' - MinuteMs)
  /\ drainElapsed' = Min(drainElapsed + d, DrainIntervalMs)
  /\ pollElapsed' = [i \in InstanceIds |->
                       IF i <= readies THEN Min(pollElapsed[i] + d, PollIntervalMs) ELSE 0]
  /\ lost' = {} /\ denials' = {} /\ thrown' = {} /\ completed' = {}
  /\ UNCHANGED <<rlVars, batches, drains, pendingMessages, fires, failures, items>>
  /\ UNCHANGED <<svVars, restVars>>

(* a caller invokes canSend(recipient) *)
CallCanSend(recipient) ==
  LET c == CanSend(globalHistory, messageHistory, recipient, now) IN
  /\ globalHistory' = c.gh
  /\ messageHistory' = c.mh
  /\ lastCheck' = [recipient |-> recipient, made |-> TRUE, res |-> c.res]
  /\ UNCHANGED <<now, ticks, queuedMessages, recorded, dvVars, svVars, restVars>>

(* RateLimiter.getStats: the counts, the queue length and the number of *)
(* recipients tracked                                                   *)
GetStats(gh, mh, q, t) ==
  [lastMinute |-> SumCount(After(gh, t - MinuteMs)),
   lastHour |-> SumCount(After(gh, t - HourMs)),
   queued |-> Len(q),
   trackedRecipients |-> Cardinality(DOMAIN mh)]

(* a caller invokes recordSent(recipient) *)
CallRecordSent(recipient) ==
  LET r == RecordSent(globalHistory, messageHistory, recipient, now) IN
  /\ Len(recorded) < MaxRecords
  /\ globalHistory' = r.gh
  /\ messageHistory' = r.mh
  /\ recorded' = Append(recorded, [timestamp |-> now, recipient |-> recipient])
  /\ lastCheck' = NoCheck
  /\ UNCHANGED <<now, ticks, queuedMessages, dvVars, svVars, restVars>>

(* the recipients the API is called with *)
ApiRecipients == {[digits |-> d, suffix |-> TRUE] : d \in Digits} \cup {NoRecipient}

RLNext ==
  \/ \E d \in TickSteps : Tick(d)
  \/ \E r \in ApiRecipients : CallCanSend(r)
  \/ \E r \in ApiRecipients : CallRecordSent(r)

SpecRL == Init /\ [][RLNext]_vars

(* ============================ delivery ================================= *)
(* The state the rate limiter and the history variables are threaded      *)
(* through while one handler runs.                                        *)
Bundle == [gh |-> globalHistory, mh |-> messageHistory, q |-> queuedMessages,
           sends |-> sends, items |-> items, lost |-> {},
           denials |-> {}, thrown |-> {}, completed |-> {}]

WithCheck(st, c) == [st EXCEPT !.gh = c.gh, !.mh = c.mh]

WithRecord(st, recipient) ==
  LET r == RecordSent(st.gh, st.mh, recipient, now) IN
  [st EXCEPT !.gh = r.gh, !.mh = r.mh]

Lose(st, how) == [st EXCEPT !.lost = @ \cup {how}]

(* index.js sendMessage up to its await of client.sendMessage: the        *)
(* admission check on the chat id; a denial is thrown as an Error with    *)
(* rateLimited = true.                                                    *)
SendMessageBegin(st, number) ==
  LET c == CanSend(st.gh, st.mh, ChatId(number), now) IN
  [st |-> WithCheck(st, c), admitted |-> c.res.allowed]

(* index.js sendMessage after client.sendMessage resolved *)
SendMessageDone(st, number) ==
  WithRecord([st EXCEPT !.sends = Append(@, [timestamp |-> now, to |-> ChatId(number)])],
             ChatId(number))

(* the item is put in front of the queued ones *)
Unshift(q, item) == <<item>> \o q

(* this.queuedMessages.push(item) *)
Push(q, item) == Append(q, item)

(* RateLimiter.queueMessage up to its await of sendFn: either the item is *)
(* appended to the queue, or sendFn is to be invoked now.                 *)
QueueMessage(st, recipient) ==
  LET c == CanSend(st.gh, st.mh, recipient, now)
      st1 == WithCheck(st, c)
      id == CHOOSE i \in 1..(Cardinality(DOMAIN st.items) + 1) : i \notin DOMAIN st.items
      item == [id |-> id, recipient |-> recipient, addedAt |-> now,
               waitTime |-> c.res.waitTime]
  IN  IF c.res.allowed
        THEN [st |-> st1, sendNow |-> TRUE]
        ELSE [st |-> [st1 EXCEPT !.q = Push(@, item),
                                 !.items = @ @@ (id :> 0)],
              sendNow |-> FALSE]

(* Array.prototype.indexOf: the first position of x *)
IndexOf(seq, x) == CHOOSE i \in 1..Len(seq) : seq[i] = x /\ \A j \in 1..(i - 1) : seq[j] # x

(* the loop goes on to the next recipient and counts nothing *)
SkippedUncounted(b) == [b EXCEPT !.idx = @ + 1]

(* failCount++ and the next turn of the loop *)
Failed(b) == [b EXCEPT !.failCount = @ + 1, !.idx = @ + 1]

(* what became of the recipient the loop is at *)
Note(b, how) == [b EXCEPT !.did[how] = Append(@, b.recipients[b.idx])]

(* the exception leaves the loop: the recipients after this one are skipped *)
CaughtOutsideLoop(b) == [Note(b, "faultedTo") EXCEPT !.idx = Len(b.recipients) + 1]

(* the catch inside the loop, for a send the transport rejected *)
Caught(b) == Failed(Note(b, "faultedTo"))

(* client.sendMessage is called and the loop goes on to the next *)
(* recipient without waiting for it                              *)
StartedNotAwaited(b, pc) == [b EXCEPT !.inFlight = @ + 1, !.idx = @ + 1]

(* await alerts.sendMessage(...): the loop is suspended until the *)
(* transport call it started settles                              *)
Awaiting(b, pc) == [b EXCEPT !.pc = pc, !.inFlight = @ + 1]

(* the awaited transport call has settled *)
Resumed(b) == [b EXCEPT !.inFlight = @ - 1]

(* the log entry at the end of the loop: successCount, failCount, total *)
Aggregate(b) == [kind |-> b.kind, recipients |-> b.recipients, total |-> Len(b.recipients),
                 successCount |-> b.successCount, failCount |-> b.failCount, did |-> b.did]

Completed(st, b) == IF b.open THEN [st EXCEPT !.completed = @ \cup {Aggregate(b)}] ELSE st

(* Scheduler.executeSchedule / OneTimeScheduler.sendOneTimeMessage from   *)
(* recipient b.idx on, up to the next await of the transport or of the    *)
(* delay; checkPendingMessages goes on with its next due job when one     *)
(* batch is complete.                                                     *)
RECURSIVE RunBatch(_, _)
RunBatch(st, b) ==
  IF b.idx > Len(b.recipients)
    THEN IF b.todo # <<>>
           THEN RunBatch(Completed(st, b),
                         [b EXCEPT !.recipients = Head(b.todo).recipients, !.idx = 1,
                                   !.job = Head(b.todo).id,
                                   !.successCount = 0, !.failCount = 0, !.open = TRUE,
                                   !.did = NoHistory, !.todo = Tail(b.todo)])
           ELSE [st |-> Completed(st, b), b |-> IdleBatch]
    ELSE
      LET r == b.recipients[b.idx]
          c == CanSend(st.gh, st.mh, r, now)
          st1 == WithCheck(st, c)
      IN  IF ~c.res.allowed
            THEN IF b.kind = "cron"
                   THEN LET qm == QueueMessage(st1, r)
                            noted == [qm.st EXCEPT !.denials = @ \cup
                                       {[kind |-> b.kind, site |-> "batch", queued |-> ~qm.sendNow]}]
                        IN  IF ~qm.sendNow
                              THEN RunBatch(noted, Failed(Note(b, "queuedTo")))
                              ELSE LET sm == SendMessageBegin(noted, r) IN
                                   IF sm.admitted
                                     THEN [st |-> sm.st, b |-> Awaiting(b, "qsending")]
                                     ELSE RunBatch(sm.st, Failed(Note(b, "refusedTo")))
                   ELSE RunBatch([st1 EXCEPT !.denials = @ \cup
                                    {[kind |-> b.kind, site |-> "batch", queued |-> FALSE]}],
                                 Failed(Note(b, "droppedTo")))
            ELSE LET sm == SendMessageBegin(st1, r) IN
                 IF sm.admitted
                   THEN [st |-> sm.st, b |-> Awaiting(b, "sending")]
                   ELSE RunBatch([sm.st EXCEPT
                                    !.thrown = @ \cup {"batch"},
                                    !.denials = @ \cup
                                      {[kind |-> b.kind, site |-> "send", queued |-> FALSE]}],
                                 Failed(Note(b, "refusedTo")))

(* the loop of processQueue over toProcess, up to the next await of the   *)
(* transport                                                              *)
RECURSIVE RunDrain(_, _)
RunDrain(st, d) ==
  IF d.toProcess = <<>>
    THEN [st |-> st, d |-> IdleDrain]
    ELSE
      LET item == Head(d.toProcess)
          st1 == [st EXCEPT !.items[item.id] = @ + 1]
          sm == SendMessageBegin(st1, item.recipient)
      IN  IF sm.admitted
            THEN [st |-> sm.st, d |-> [d EXCEPT !.pc = "sending"]]
            ELSE RunDrain([Lose(sm.st, "thrown") EXCEPT !.thrown = @ \cup {"drain"}],
                          [d EXCEPT !.toProcess = Tail(@)])

(* the first loop of processQueue: one canSend per queued item *)
RECURSIVE Partition(_, _, _, _)
Partition(st, queue, toProcess, stillQueued) ==
  IF queue = <<>>
    THEN [st |-> st, toProcess |-> toProcess, stillQueued |-> stillQueued]
    ELSE
      LET item == Head(queue)
          c == CanSend(st.gh, st.mh, item.recipient, now)
          st1 == WithCheck(st, c)
      IN  IF c.res.allowed
            THEN Partition(st1, Tail(queue), Append(toProcess, item), stillQueued)
          ELSE IF now - item.addedAt > StaleMs
            THEN Partition(st1, Tail(queue), toProcess, stillQueued)
          ELSE Partition(st1, Tail(queue), toProcess, Append(stillQueued, item))

(* processQueue keeps the selected items in the queue until they are sent *)
QueueAfterPartitionKeepsSelected(toProcess, stillQueued) == toProcess \o stillQueued

(* processQueue: this.queuedMessages = stillQueued *)
QueueAfterPartition(toProcess, stillQueued) == stillQueued

(* the queued deliveries that are still somewhere: queued, or held by a *)
(* running processQueue                                                 *)
Alive(q, ds) ==
  {q[i].id : i \in 1..Len(q)} \cup
  UNION {{ds[d].toProcess[i].id : i \in 1..Len(ds[d].toProcess)} : d \in DOMAIN ds}

Commit(st, ds) ==
  /\ globalHistory' = st.gh
  /\ messageHistory' = st.mh
  /\ queuedMessages' = st.q
  /\ sends' = st.sends
  /\ items' = [id \in DOMAIN st.items \cap Alive(st.q, ds) |-> st.items[id]]
  /\ lost' = st.lost
  /\ denials' = st.denials
  /\ thrown' = st.thrown
  /\ completed' = st.completed
  /\ UNCHANGED recorded

(* the recipient lists of the configured schedules and of one-time jobs *)
RecipientLists == {<<N1, N2c>>}
SingleRecipientLists == {<<N1>>}

(* node-cron fires a schedule: executeSchedule(schedule) starts *)
CronFire(recipients) ==
  /\ fires < MaxFires
  /\ \E b \in BatchIds : batches[b].pc = "idle"
  /\ LET b == FirstIdle(batches)
         r == RunBatch(Bundle, [IdleBatch EXCEPT !.kind = "cron", !.open = TRUE,
                                  !.recipients = recipients, !.idx = 1])
     IN  /\ batches' = [batches EXCEPT ![b] = r.b]
         /\ Commit(r.st, drains)
  /\ fires' = fires + 1
  /\ UNCHANGED <<svVars, restVars, now, ticks, lastCheck, drains, pendingMessages, drainElapsed, pollElapsed,
                 failures>>

(* OneTimeScheduler.addOneTimeMessage *)
AddOneTimeMessage(recipients, sendAt) ==
  /\ fires < MaxFires
  /\ fires' = fires + 1
  /\ pendingMessages' = [pendingMessages EXCEPT ![1] = Append(@,
        [id |-> fires + 1, recipients |-> recipients, sendAt |-> sendAt])]
  /\ lost' = {} /\ denials' = {} /\ thrown' = {} /\ completed' = {}
  /\ UNCHANGED <<svVars, restVars, now, ticks, lastCheck, rlVars, batches, drains, drainElapsed, pollElapsed,
                 failures, sends, items>>

(* a job is due when its sendAt falls before the next poll *)
DueBeforeNextPoll(msg, t) == msg.sendAt <= t + PollIntervalMs

(* a job is due only once its sendAt lies in the past *)
DueStrictlyBefore(msg, t) == msg.sendAt < t

(* checkPendingMessages: msg.sendAt <= now *)
Due(msg, t) == msg.sendAt <= t

(* checkPendingMessages of scheduler object i over its pending list pend, *)
(* up to the first await of the transport or of the delay                *)
PollPending(i, pend) ==
  LET toSend == SelectSeq(pend, LAMBDA m : Due(m, now))
      remaining == SelectSeq(pend, LAMBDA m : ~Due(m, now))
      b == FirstIdle(batches)
      r == RunBatch(Bundle, [IdleBatch EXCEPT !.kind = "onetime", !.idx = 1,
                               !.todo = toSend])
      ids == {toSend[k].id : k \in 1..Len(toSend)}
  IN  /\ \E s \in BatchIds : batches[s].pc = "idle"
      /\ pendingMessages' = [pendingMessages EXCEPT ![i] = remaining]
      /\ batches' = [batches EXCEPT ![b] = r.b]
      /\ Commit(r.st, drains)
      /\ selected' = [id \in DOMAIN selected \cup ids |->
                        (IF id \in DOMAIN selected THEN selected[id] ELSE 0)
                        + (IF id \in ids THEN 1 ELSE 0)]

(* the 60 s interval of scheduler object i (or its start) calls *)
(* checkPendingMessages                                         *)
CheckPendingMessages(i) ==
  /\ i <= readies
  /\ pollOn[i]
  /\ pollElapsed[i] >= PollIntervalMs
  /\ pollElapsed' = [pollElapsed EXCEPT ![i] = 0]
  /\ PollPending(i, pendingMessages[i])
  /\ saveDue' = [saveDue EXCEPT ![i] = TRUE]
  /\ UNCHANGED <<restVars, readies, store, now, ticks, lastCheck, drains, drainElapsed,
                 fires, failures>>

(* the 60 s interval the 'ready' handler installs: saveToFile *)
SaveToFile(i) ==
  /\ i <= readies
  /\ saveDue[i]
  /\ saveDue' = [saveDue EXCEPT ![i] = FALSE]
  /\ store' = JsonStringify(pendingMessages[i])
  /\ lost' = {} /\ denials' = {} /\ thrown' = {} /\ completed' = {}
  /\ UNCHANGED <<restVars, readies, selected, now, ticks, lastCheck, rlVars, batches, drains,
                 pendingMessages, drainElapsed, pollElapsed, fires, failures, sends, items>>

(* the client emits 'ready' again after a reinitialisation. The handler  *)
(* of index.js resets the restart counter, constructs and starts another *)
(* Scheduler on the configured schedules (the timers of the previous     *)
(* one keep running), constructs another OneTimeScheduler, loads the     *)
(* jobs file into it and starts it, which polls at once; the listener of *)
(* BrowserManager then takes the browser and resets the counter          *)
Ready ==
  /\ readies < MaxReady
  /\ readies' = readies + 1
  /\ restartAttempts' = OnReady(Supervisor).restartAttempts
  /\ browser' = TRUE
  /\ supEvent' = [kind |-> "ready", reason |-> "", restartable |-> FALSE,
                  latched |-> isRestarting,
                  started |-> FALSE, attemptsBefore |-> restartAttempts,
                  attemptsAfter |-> OnReady(Supervisor).restartAttempts]
  /\ LET sc == StartAll([jobs |-> <<>>, tasks |-> tasks, rejected |-> {}], configSchedules)
     IN  /\ jobs' = sc.jobs
         /\ tasks' = sc.tasks
         /\ lastRejected' = sc.rejected
  /\ isRunning' = TRUE
  /\ pollElapsed' = [pollElapsed EXCEPT ![readies + 1] = 0]
  /\ pollOn' = [pollOn EXCEPT ![readies + 1] = TRUE]
  /\ PollPending(readies + 1, JsonParse(store))
  /\ UNCHANGED <<cfVars, phase, configSchedules, isRestarting, lastRestartTime, restarts, reinitTimers,
                 looseInits, store, saveDue, now, ticks, lastCheck, drains, drainElapsed,
                 fires, failures>>

InFlight(b) == batches[b].pc \in {"sending", "qsending"}

(* client.sendMessage resolves for batch b *)
SendOk(b) ==
  /\ InFlight(b)
  /\ LET cur == Resumed(batches[b])
         r == cur.recipients[cur.idx]
         st1 == WithRecord(SendMessageDone(Bundle, r), r)
     IN  IF cur.pc = "sending"
           /\ IndexOf(cur.recipients, r) < Len(cur.recipients)
           THEN /\ batches' = [batches EXCEPT ![b] = [Note(cur, "directTo") EXCEPT
                                 !.pc = "delay", !.successCount = @ + 1,
                                 !.wakeAt = now + DelayMs]]
                /\ Commit(st1, drains)
           ELSE LET nb == IF cur.pc = "sending"
                            THEN [Note(cur, "directTo") EXCEPT !.pc = "run",
                                    !.successCount = @ + 1, !.idx = @ + 1]
                            ELSE [Failed(Note(cur, "queuedTo")) EXCEPT !.pc = "run"]
                    r2 == RunBatch(st1, nb)
                IN  /\ batches' = [batches EXCEPT ![b] = r2.b]
                    /\ Commit(r2.st, drains)
  /\ UNCHANGED <<svVars, restVars, now, ticks, lastCheck, drains, pendingMessages, drainElapsed, pollElapsed, fires, failures>>

(* client.sendMessage rejects for batch b *)
SendFail(b) ==
  /\ InFlight(b)
  /\ failures < MaxFailures
  /\ failures' = failures + 1
  /\ LET r2 == RunBatch(Bundle, [Caught(Resumed(batches[b])) EXCEPT !.pc = "run"])
     IN  /\ batches' = [batches EXCEPT ![b] = r2.b]
         /\ Commit(r2.st, drains)
  /\ UNCHANGED <<svVars, restVars, now, ticks, lastCheck, drains, pendingMessages, drainElapsed, pollElapsed, fires>>

(* the 3 s timer of batch b expires *)
DelayDone(b) ==
  /\ batches[b].pc = "delay"
  /\ now >= batches[b].wakeAt
  /\ LET r2 == RunBatch(Bundle, [batches[b] EXCEPT !.pc = "run", !.idx = @ + 1, !.wakeAt = 0])
     IN  /\ batches' = [batches EXCEPT ![b] = r2.b]
         /\ Commit(r2.st, drains)
  /\ UNCHANGED <<svVars, restVars, now, ticks, lastCheck, drains, pendingMessages, drainElapsed, pollElapsed, fires, failures>>

(* the 30 s interval calls processQueue *)
ProcessQueue ==
  /\ drainElapsed >= DrainIntervalMs
  /\ \E d \in DrainIds : drains[d].pc = "idle"
  /\ drainElapsed' = 0
  /\ IF queuedMessages = <<>>
       THEN /\ lost' = {} /\ denials' = {} /\ thrown' = {} /\ completed' = {}
            /\ UNCHANGED <<rlVars, drains, sends, items>>
       ELSE LET d == FirstIdle(drains)
                p == Partition(Bundle, queuedMessages, <<>>, <<>>)
                st1 == [p.st EXCEPT !.q = QueueAfterPartition(p.toProcess, p.stillQueued)]
                r == RunDrain(st1, [pc |-> "run", toProcess |-> p.toProcess])
            IN  /\ drains' = [drains EXCEPT ![d] = r.d]
                /\ Commit(r.st, drains')
  /\ UNCHANGED <<svVars, restVars, now, ticks, lastCheck, batches, pendingMessages, pollElapsed, fires, failures>>

(* client.sendMessage resolves for the item drain d is sending *)
DrainSendOk(d) ==
  /\ drains[d].pc = "sending"
  /\ LET item == Head(drains[d].toProcess)
         st1 == WithRecord(SendMessageDone(Bundle, item.recipient), item.recipient)
         r == RunDrain(st1, [drains[d] EXCEPT !.pc = "run", !.toProcess = Tail(@)])
     IN  /\ drains' = [drains EXCEPT ![d] = r.d]
         /\ Commit(r.st, drains')
  /\ UNCHANGED <<svVars, restVars, now, ticks, lastCheck, batches, pendingMessages, drainElapsed, pollElapsed, fires, failures>>

(* client.sendMessage rejects for the item drain d is sending *)
DrainSendFail(d) ==
  /\ drains[d].pc = "sending"
  /\ failures < MaxFailures
  /\ failures' = failures + 1
  /\ LET item == Head(drains[d].toProcess)
         r == RunDrain(Lose(Bundle, "failed"),
                       [drains[d] EXCEPT !.pc = "run", !.toProcess = Tail(@)])
     IN  /\ drains' = [drains EXCEPT ![d] = r.d]
         /\ Commit(r.st, drains')
  /\ UNCHANGED <<svVars, restVars, now, ticks, lastCheck, batches, pendingMessages, drainElapsed, pollElapsed, fires>>

(* the recurring scheduler, the transport and the queue drain *)
Next ==
  \/ \E d \in DeliverySteps : Tick(d)
  \/ \E rs \in RecipientLists : CronFire(rs)
  \/ \E b \in BatchIds : SendOk(b)
  \/ \E b \in BatchIds : SendFail(b)
  \/ \E b \in BatchIds : DelayDone(b)
  \/ ProcessQueue
  \/ \E d \in DrainIds : DrainSendOk(d)
  \/ \E d \in DrainIds : DrainSendFail(d)

Spec == Init /\ [][Next]_vars

(* the one-time scheduler and the transport *)
OTNext ==
  \/ \E d \in DeliverySteps : Tick(d)
  \/ \E rs \in RecipientLists : AddOneTimeMessage(rs, now)
  \/ \E i \in InstanceIds : CheckPendingMessages(i)
  \/ \E b \in BatchIds : SendOk(b)
  \/ \E b \in BatchIds : SendFail(b)
  \/ \E b \in BatchIds : DelayDone(b)

SpecOT == Init /\ [][OTNext]_vars

(* The poll interval keeps firing, the clock advances, the transport      *)
(* answers and the delay timers expire: weak fairness of each of these    *)
(* actions, []<>~ENABLED <<A>>_vars \/ []<><<A>>_vars, with ENABLED       *)
(* written out as the guard of the action.                                *)
OTFairness ==
  /\ []<>(~(ticks < MaxTicks)) \/ []<><<Tick(PollIntervalMs)>>_vars
  /\ []<>(~(pollElapsed[1] >= PollIntervalMs /\ \E b \in BatchIds : batches[b].pc = "idle"))
       \/ []<><<CheckPendingMessages(1)>>_vars
  /\ \A b \in BatchIds : []<>(~InFlight(b)) \/ []<><<SendOk(b)>>_vars
  /\ \A b \in BatchIds :
        []<>(~(batches[b].pc = "delay" /\ now >= batches[b].wakeAt)) \/ []<><<DelayDone(b)>>_vars

(* the one-time scheduler with a few jobs, the poll and delay timers and *)
(* a transport that answers                                             *)
OTLiveNext ==
  \/ \E d \in {DelayMs, PollIntervalMs} : Tick(d)
  \/ \E rs \in RecipientLists : fires < MaxBatchFires /\ AddOneTimeMessage(rs, now)
  \/ CheckPendingMessages(1)
  \/ \E b \in BatchIds : SendOk(b)
  \/ \E b \in BatchIds : DelayDone(b)

SpecOTLive == Init /\ [][OTLiveNext]_vars /\ OTFairness

(* the one-time scheduler with jobs for now, for the next poll and for *)
(* the one after it                                                    *)
SendAtOffsets == {0, PollIntervalMs, 2 * PollIntervalMs}

DueNext ==
  \/ Tick(PollIntervalMs)
  \/ \E d \in SendAtOffsets : AddOneTimeMessage(<<N1>>, now + d)
  \/ CheckPendingMessages(1)
  \/ \E b \in BatchIds : SendOk(b)

SpecDue == Init /\ [][DueNext]_vars

(* what one-time-messages.json holds when the service starts: a job that *)
(* is already due, or one due a minute later                            *)
StoredJob(id, sendAt) == [id |-> id, recipients |-> <<N1>>, sendAt |-> sendAt]
StoreContents == {<<StoredJob(101, 0)>>, <<StoredJob(102, PollIntervalMs)>>}

InitSvc == \E stored \in StoreContents : InitWith(DefaultLimits, stored)

(* the service around the one-time scheduler: the 'ready' handler, the *)
(* poll and save intervals it installs, and the transport              *)
SvcNext ==
  \/ \E d \in DeliverySteps : Tick(d)
  \/ Ready
  \/ \E i \in InstanceIds : CheckPendingMessages(i)
  \/ \E i \in InstanceIds : SaveToFile(i)
  \/ \E b \in BatchIds : SendOk(b)
  \/ \E b \in BatchIds : SendFail(b)

SpecSvc == InitSvc /\ [][SvcNext]_vars

(* ==================== the recurring scheduler's table ================== *)
(* a call on the Scheduler object leaves delivery and the clock alone *)
OnlyTheTable ==
  /\ lost' = {} /\ denials' = {} /\ thrown' = {} /\ completed' = {}
  /\ UNCHANGED <<cfVars, suVars, lcVars, svVars, now, ticks, lastCheck, rlVars, batches,
                 drains, pendingMessages, drainElapsed, pollElapsed, fires, failures, sends,
                 items>>

Table == [jobs |-> jobs, tasks |-> tasks, rejected |-> {}]

SetTable(sc) ==
  /\ Len(sc.tasks) <= MaxTasks
  /\ jobs' = sc.jobs
  /\ tasks' = sc.tasks
  /\ lastRejected' = sc.rejected

(* a caller invokes addSchedule(s) *)
AddSchedule(s) ==
  /\ SetTable(AddScheduleOp(Table, s))
  /\ UNCHANGED <<configSchedules, isRunning>>
  /\ OnlyTheTable

(* a caller invokes removeSchedule(id) *)
RemoveSchedule(id) ==
  /\ SetTable(RemoveScheduleOp(Table, id))
  /\ UNCHANGED <<configSchedules, isRunning>>
  /\ OnlyTheTable

(* Scheduler.start *)
Start ==
  /\ IF isRunning
       THEN SetTable(Table) /\ UNCHANGED isRunning
       ELSE SetTable(StartAll(Table, configSchedules)) /\ isRunning' = TRUE
  /\ UNCHANGED configSchedules
  /\ OnlyTheTable

(* Scheduler.stop *)
Stop ==
  /\ SetTable([Table EXCEPT !.tasks = StopAll(@, jobs), !.jobs = <<>>])
  /\ isRunning' = FALSE
  /\ UNCHANGED configSchedules
  /\ OnlyTheTable

(* node-cron runs the callback of task t: executeSchedule(schedule) starts *)
TaskFire(t) ==
  /\ t \in 1..Len(tasks)
  /\ tasks[t].live
  /\ fires < MaxTaskFires
  /\ CronFire(RecipientsOf(tasks[t].schedule))

ScheduleIds == {"morning", "evening", "nightly"}

InitSched ==
  /\ InitCore(DefaultLimits, <<>>)
  /\ configSchedules \in ConfigChoices
  /\ isRunning = FALSE
  /\ jobs = <<>>
  /\ tasks = <<>>
  /\ lastRejected = {}
  /\ InitSupervisor(0, TRUE)

(* the Scheduler object from its construction on, its timers and the *)
(* transport                                                         *)
SchedNext ==
  \/ Start
  \/ Stop
  \/ \E s \in ApiSchedules : AddSchedule(s)
  \/ \E id \in ScheduleIds : RemoveSchedule(id)
  \/ \E t \in 1..MaxTasks : TaskFire(t)
  \/ \E b \in BatchIds : SendOk(b)

SpecSched == InitSched /\ [][SchedNext]_vars

(* ----------------------- the supervisor's steps ------------------------ *)
OnlyTheSupervisor ==
  /\ lost' = {} /\ denials' = {} /\ thrown' = {} /\ completed' = {}
  /\ UNCHANGED <<cfVars, scVars, lcVars, svVars, now, ticks, lastCheck, rlVars, batches,
                 drains, pendingMessages, drainElapsed, pollElapsed, fires, failures, sends,
                 items, browser>>

SetSupervisor(su) ==
  /\ isRestarting' = su.isRestarting
  /\ restartAttempts' = su.restartAttempts
  /\ lastRestartTime' = su.lastRestartTime
  /\ restarts' = su.restarts

EventOf(kind, reason, restartable, su) ==
  [kind |-> kind, reason |-> reason, restartable |-> restartable, latched |-> isRestarting,
   started |-> \E r \in RestartIds : restarts[r].pc = "idle" /\ su.restarts[r].pc # "idle",
   attemptsBefore |-> restartAttempts, attemptsAfter |-> su.restartAttempts]

(* the client emits 'disconnected': the listener of index.js arms a 5 s   *)
(* timer for client.initialize() on NAVIGATION and CONFLICT, then         *)
(* BrowserManager.handleDisconnection runs                                *)
OnDisconnected(reason) ==
  LET su == IF isRestarting THEN Supervisor
            ELSE IF ShouldRestart(reason) THEN RestartBrowserOp(Supervisor)
            ELSE Supervisor
  IN  /\ IF reason \in {"NAVIGATION", "CONFLICT"}
           THEN /\ Len(reinitTimers) + looseInits < MaxReinitTimers
                /\ reinitTimers' = Append(reinitTimers, now + ReinitDelayMs)
           ELSE reinitTimers' = reinitTimers
      /\ SetSupervisor(su)
      /\ supEvent' = EventOf("disconnected", reason, ShouldRestart(reason), su)
      /\ UNCHANGED looseInits
      /\ OnlyTheSupervisor

(* the client emits 'error': handleBrowserError on a browser error *)
OnError(message) ==
  LET su == IF ~IsBrowserError(message) THEN Supervisor
            ELSE IF isRestarting THEN Supervisor
            ELSE RestartBrowserOp(Supervisor)
  IN  /\ SetSupervisor(su)
      /\ supEvent' = EventOf("error", message, IsBrowserError(message), su)
      /\ UNCHANGED <<reinitTimers, looseInits>>
      /\ OnlyTheSupervisor

(* restartBrowser: the pages and the browser are closed (a failure of    *)
(* either is caught), the sleep begins                                   *)
CloseDone(r) ==
  /\ restarts[r].pc = "closing"
  /\ restarts' = [restarts EXCEPT ![r].pc = "sleeping",
                                  ![r].wakeAt = now + TimerMs(restarts[r].delay)]
  /\ supEvent' = NoEvent
  /\ UNCHANGED <<isRestarting, restartAttempts, lastRestartTime, reinitTimers, looseInits>>
  /\ OnlyTheSupervisor

(* restartBrowser: the sleep is over, client.initialize() is called *)
SleepDone(r) ==
  /\ restarts[r].pc = "sleeping"
  /\ now >= restarts[r].wakeAt
  /\ restarts' = [restarts EXCEPT ![r].pc = "initializing"]
  /\ supEvent' = NoEvent
  /\ UNCHANGED <<isRestarting, restartAttempts, lastRestartTime, reinitTimers, looseInits>>
  /\ OnlyTheSupervisor

(* restartBrowser: client.initialize() resolves *)
InitializeOk(r) ==
  /\ restarts[r].pc = "initializing"
  /\ SetSupervisor(Settle(Supervisor, r, TRUE))
  /\ supEvent' = [NoEvent EXCEPT !.kind = "initialized"]
  /\ UNCHANGED <<reinitTimers, looseInits>>
  /\ OnlyTheSupervisor

(* restartBrowser: client.initialize() throws *)
InitializeFail(r) ==
  /\ restarts[r].pc = "initializing"
  /\ SetSupervisor(Settle(Supervisor, r, FALSE))
  /\ supEvent' = [NoEvent EXCEPT !.kind = "initfailed", !.attemptsBefore = restartAttempts,
                                 !.attemptsAfter = restartAttempts]
  /\ UNCHANGED <<reinitTimers, looseInits>>
  /\ OnlyTheSupervisor

(* index.js: the 5 s timer of the 'disconnected' listener calls *)
(* client.initialize()                                          *)
ReinitTimerFires ==
  /\ reinitTimers # <<>>
  /\ now >= Head(reinitTimers)
  /\ reinitTimers' = Tail(reinitTimers)
  /\ looseInits' = looseInits + 1
  /\ supEvent' = NoEvent
  /\ UNCHANGED <<isRestarting, restartAttempts, lastRestartTime, restarts>>
  /\ OnlyTheSupervisor

(* index.js: that client.initialize() settles *)
ReinitSettles ==
  /\ looseInits > 0
  /\ looseInits' = looseInits - 1
  /\ supEvent' = NoEvent
  /\ UNCHANGED <<isRestarting, restartAttempts, lastRestartTime, restarts, reinitTimers>>
  /\ OnlyTheSupervisor

(* the supervisor after any number of restarts, with or without a browser *)
InitSup ==
  /\ InitCore(DefaultLimits, <<>>)
  /\ InitStarted
  /\ \E attempts \in 0..MaxRetries, hasBrowser \in BOOLEAN : InitSupervisor(attempts, hasBrowser)

SupNext ==
  \/ Tick(MaxDelay)
  \/ \E reason \in Reasons : OnDisconnected(reason)
  \/ \E message \in ErrorMessages : OnError(message)
  \/ \E r \in RestartIds : CloseDone(r)
  \/ \E r \in RestartIds : SleepDone(r)
  \/ \E r \in RestartIds : InitializeOk(r)
  \/ \E r \in RestartIds : InitializeFail(r)
  \/ ReinitTimerFires
  \/ ReinitSettles
  \/ Ready

SpecSup == InitSup /\ [][SupNext]_vars

(* The supervisor's own steps go on: the clock advances, the browser      *)
(* closes, the sleep ends and client.initialize() settles; the transport  *)
(* need not emit another event: weak fairness of each.                    *)
SupFairness ==
  /\ WF_vars(Tick(MaxDelay))
  /\ \A r \in RestartIds : WF_vars(CloseDone(r))
  /\ \A r \in RestartIds : WF_vars(SleepDone(r))
  /\ \A r \in RestartIds : WF_vars(InitializeOk(r) \/ InitializeFail(r))

SpecSupLive == InitSup /\ [][SupNext]_vars /\ SupFairness

(* Batches of one and of three recipients, each fired once the one before *)
(* has ended, under limits that leave room for a whole batch:             *)
(* RATE_LIMIT_PER_MINUTE 5, RATE_LIMIT_PER_HOUR 6,                        *)
(* RATE_LIMIT_PER_RECIPIENT 1                                             *)
BatchLimits == [perMinute |-> 5, perHour |-> 6, perRecipient |-> 1]
BatchLists == {<<N2c>>, <<N1, N2c, N3c>>}
InitBatch == InitWith(BatchLimits, <<>>)

BatchNext ==
  \/ \E d \in {DelayMs, MinuteMs} : Tick(d)
  \/ \E rs \in BatchLists :
        /\ fires < MaxBatchFires
        /\ \A b \in BatchIds : batches[b].pc = "idle"
        /\ CronFire(rs)
  \/ \E b \in BatchIds : SendOk(b)
  \/ \E b \in BatchIds : SendFail(b)
  \/ \E b \in BatchIds : DelayDone(b)

SpecBatch == InitBatch /\ [][BatchNext]_vars

(* the recurring and the one-time scheduler side by side, and the    *)
(* transport; schedules and polls come once the batch before has ended *)
BothNext ==
  \/ \E d \in {DelayMs, PollIntervalMs} : Tick(d)
  \/ \E rs \in RecipientLists :
        /\ fires < MaxBatchFires
        /\ \A b \in BatchIds : batches[b].pc = "idle"
        /\ CronFire(rs)
  \/ \E rs \in RecipientLists : fires < MaxBatchFires /\ AddOneTimeMessage(rs, now)
  \/ (\A b \in BatchIds : batches[b].pc = "idle") /\ CheckPendingMessages(1)
  \/ \E b \in BatchIds : SendOk(b)
  \/ \E b \in BatchIds : SendFail(b)
  \/ \E b \in BatchIds : DelayDone(b)

SpecBoth == Init /\ [][BothNext]_vars

(* recipient lists that name a recipient more than once, under limits *)
(* (RATE_LIMIT_* of the environment) that allow every send of a list  *)
DupLimits == [perMinute |-> 8, perHour |-> 9, perRecipient |-> 5]
DupLists == {<<N1, N1>>, <<N1, N2c, N1>>, <<N1, N2c>>}
InitDup == InitWith(DupLimits, <<>>)

DupNext ==
  \/ \E d \in {DelayMs, PollIntervalMs} : Tick(d)
  \/ \E rs \in DupLists :
        /\ fires < MaxBatchFires
        /\ \A b \in BatchIds : batches[b].pc = "idle"
        /\ CronFire(rs)
  \/ \E rs \in DupLists : fires < MaxBatchFires /\ AddOneTimeMessage(rs, now)
  \/ (\A b \in BatchIds : batches[b].pc = "idle") /\ CheckPendingMessages(1)
  \/ \E b \in BatchIds : SendOk(b)
  \/ \E b \in BatchIds : DelayDone(b)

SpecDup == InitDup /\ [][DupNext]_vars

(* ------------------------- the process's end --------------------------- *)
(* gracefulShutdown up to its await of client.destroy(): stop() of the   *)
(* Scheduler and of the OneTimeScheduler the latest 'ready' handler left *)
(* in global, and saveToFile of that OneTimeScheduler                    *)
GracefulShutdown ==
  /\ phase = "running"
  /\ phase' = "stopping"
  /\ tasks' = StopAll(tasks, jobs)
  /\ jobs' = <<>>
  /\ isRunning' = FALSE
  /\ pollOn' = [pollOn EXCEPT ![readies] = FALSE]
  /\ store' = JsonStringify(pendingMessages[readies])
  /\ lost' = {} /\ denials' = {} /\ thrown' = {} /\ completed' = {}
  /\ UNCHANGED <<cfVars, suVars, configSchedules, lastRejected, readies, saveDue, selected, now,
                 ticks, lastCheck, rlVars, batches, drains, pendingMessages, drainElapsed,
                 pollElapsed, fires, failures, sends, items>>

(* gracefulShutdown after client.destroy() settled: process.exit(0); what *)
(* the process held in memory is kept as it was at that moment            *)
ProcessExit ==
  /\ phase = "stopping"
  /\ phase' = "exited"
  /\ lost' = {} /\ denials' = {} /\ thrown' = {} /\ completed' = {}
  /\ UNCHANGED <<cfVars, suVars, scVars, pollOn, svVars, now, ticks, lastCheck, rlVars, batches,
                 drains, pendingMessages, drainElapsed, pollElapsed, fires, failures, sends,
                 items>>

(* what one-time-messages.json holds when the service starts: a job for *)
(* two recipients that is already due                                   *)
LifeJobs == <<[id |-> 101, recipients |-> <<N1, N2c>>, sendAt |-> 0]>>
InitLife == InitWith(DefaultLimits, LifeJobs)

(* the service from its first 'ready' to the end of the process: the *)
(* timers, the transport and a termination signal                   *)
LifeNext ==
  \/ phase # "exited" /\ \E d \in {DelayMs, PollIntervalMs} : Tick(d)
  \/ phase # "exited" /\ \E t \in 1..MaxTasks : TaskFire(t)
  \/ phase # "exited" /\ \E i \in InstanceIds : CheckPendingMessages(i)
  \/ phase # "exited" /\ \E i \in InstanceIds : SaveToFile(i)
  \/ phase # "exited" /\ ProcessQueue
  \/ phase # "exited" /\ \E d \in DrainIds : DrainSendOk(d)
  \/ phase # "exited" /\ \E b \in BatchIds : SendOk(b)
  \/ phase # "exited" /\ \E b \in BatchIds : SendFail(b)
  \/ phase # "exited" /\ \E b \in BatchIds : DelayDone(b)
  \/ GracefulShutdown
  \/ ProcessExit

SpecLife == InitLife /\ [][LifeNext]_vars

(* -------------------- the authoring flow and a restart ------------------ *)
(* saveOneTimeScheduleForMultiple, run by another process in send-multiple *)
(* mode: reads the jobs file, pushes the new job and writes the file       *)
SaveOneTimeScheduleForMultiple(numbers, finalSendAt) ==
  /\ phase = "running"
  /\ fires < MaxFires
  /\ fires' = fires + 1
  /\ store' = JsonStringify(Append(JsonParse(store),
        [id |-> fires + 1, recipients |-> numbers, sendAt |-> finalSendAt]))
  /\ lost' = {} /\ denials' = {} /\ thrown' = {} /\ completed' = {}
  /\ UNCHANGED <<restVars, readies, saveDue, selected, now, ticks, lastCheck, rlVars, batches,
                 drains, pendingMessages, drainElapsed, pollElapsed, failures, sends, items>>

(* the process manager starts the service again after its exit: the first *)
(* 'ready' handler of the new process constructs the rate limiter, the    *)
(* supervisor and the schedulers, and loadFromFile reads the jobs file    *)
ServiceStart ==
  /\ phase = "exited"
  /\ phase' = "running"
  /\ readies' = 1
  /\ pollOn' = [i \in InstanceIds |-> i = 1]
  /\ saveDue' = [i \in InstanceIds |-> FALSE]
  /\ pendingMessages' = [i \in InstanceIds |-> IF i = 1 THEN JsonParse(store) ELSE <<>>]
  /\ pollElapsed' = [i \in InstanceIds |-> IF i = 1 THEN PollIntervalMs ELSE 0]
  /\ globalHistory' = <<>>
  /\ messageHistory' = << >>
  /\ queuedMessages' = <<>>
  /\ recorded' = <<>>
  /\ lastCheck' = NoCheck
  /\ batches' = [b \in BatchIds |-> IdleBatch]
  /\ drains' = [d \in DrainIds |-> IdleDrain]
  /\ drainElapsed' = 0
  /\ isRunning' = TRUE
  /\ jobs' = StartAll(EmptyTable, configSchedules).jobs
  /\ tasks' = StartAll(EmptyTable, configSchedules).tasks
  /\ lastRejected' = {}
  /\ isRestarting' = FALSE
  /\ restartAttempts' = 0
  /\ browser' = TRUE
  /\ lastRestartTime' = NoTime
  /\ restarts' = [r \in RestartIds |-> IdleRestart]
  /\ reinitTimers' = <<>>
  /\ looseInits' = 0
  /\ supEvent' = NoEvent
  /\ lost' = {} /\ denials' = {} /\ thrown' = {} /\ completed' = {}
  /\ UNCHANGED <<cfVars, configSchedules, store, selected, now, ticks, fires, failures, sends,
                 items>>

(* the service with its poll and its saves, the authoring flow beside it, *)
(* a termination signal and the restart the flow asks for                *)
AuthorNext ==
  \/ phase # "exited" /\ Tick(PollIntervalMs)
  \/ phase # "exited" /\ CheckPendingMessages(1)
  \/ phase # "exited" /\ SaveToFile(1)
  \/ phase # "exited" /\ \E b \in BatchIds : SendOk(b)
  \/ \E d \in SendAtOffsets : SaveOneTimeScheduleForMultiple(<<N1>>, now + d)
  \/ GracefulShutdown
  \/ ProcessExit
  \/ ServiceStart

(* what one-time-messages.json holds when the service first starts: a *)
(* job for one recipient that is already due                          *)
AuthorJobs == <<[id |-> 101, recipients |-> <<N2c>>, sendAt |-> 0]>>
InitAuthor == InitWith(DefaultLimits, AuthorJobs)

SpecAuthor == InitAuthor /\ [][AuthorNext]_vars

(* schedules with one recipient each, the queue drain and the transport: *)
(* executeSchedule never reaches its inter-recipient delay               *)
DrainNext ==
  \/ \E d \in DeliverySteps : Tick(d)
  \/ \E rs \in SingleRecipientLists : CronFire(rs)
  \/ \E b \in BatchIds : SendOk(b)
  \/ \E b \in BatchIds : SendFail(b)
  \/ ProcessQueue
  \/ \E d \in DrainIds : DrainSendOk(d)
  \/ \E d \in DrainIds : DrainSendFail(d)

SpecDrain == Init /\ [][DrainNext]_vars

(* the same with a clock that passes the staleness bound *)
DrainLiveNext ==
  \/ \E d \in {DrainIntervalMs, StaleMs} : Tick(d)
  \/ \E rs \in SingleRecipientLists : CronFire(rs)
  \/ \E b \in BatchIds : SendOk(b)
  \/ ProcessQueue
  \/ \E d \in DrainIds : DrainSendOk(d)
  \/ \E d \in DrainIds : DrainSendFail(d)

(* The drain interval keeps firing, the clock advances and the transport *)
(* answers: weak fairness of each; for the steps that run the limiter it *)
(* is written []<>~ENABLED \/ []<><<A>>_vars with ENABLED spelled out as  *)
(* the guard of the action                                               *)
DrainFairness ==
  /\ WF_vars(\E d \in {DrainIntervalMs, StaleMs} : Tick(d))
  /\ []<>(~(drainElapsed >= DrainIntervalMs /\ \E d \in DrainIds : drains[d].pc = "idle"))
       \/ []<><<ProcessQueue>>_vars
  /\ \A b \in BatchIds : []<>(~InFlight(b)) \/ []<><<SendOk(b)>>_vars
  /\ \A d \in DrainIds : []<>(~(drains[d].pc = "sending")) \/ []<><<DrainSendOk(d)>>_vars

SpecDrainLive == Init /\ [][DrainLiveNext]_vars /\ DrainFairness

(* rateLimiter.queueMessage(recipient, message, sendFn) called with the *)
(* send action of the scheduler, up to its return or its await of       *)
(* sendFn; the call that awaits takes a slot of its own                 *)
QueueMessageCall(recipient) ==
  /\ fires < MaxFires
  /\ fires' = fires + 1
  /\ \E b \in BatchIds : batches[b].pc = "idle"
  /\ LET b == FirstIdle(batches)
         qm == QueueMessage(Bundle, recipient)
         sm == SendMessageBegin(qm.st, recipient)
         call == [IdleBatch EXCEPT !.kind = "queue", !.recipients = <<recipient>>, !.idx = 1]
     IN  IF ~qm.sendNow
           THEN /\ batches' = batches
                /\ Commit(qm.st, drains)
         ELSE IF sm.admitted
           THEN /\ batches' = [batches EXCEPT ![b] = Awaiting(call, "qsending")]
                /\ Commit(sm.st, drains)
         ELSE /\ batches' = batches
              /\ Commit([sm.st EXCEPT !.thrown = @ \cup {"queue"}], drains)
  /\ UNCHANGED <<svVars, restVars, now, ticks, lastCheck, drains, pendingMessages, drainElapsed,
                 pollElapsed, failures>>

QmNext ==
  \/ \E d \in {DelayMs, MinuteMs} : Tick(d)
  \/ \E r \in {N1, N2c} : QueueMessageCall(r)
  \/ \E b \in BatchIds : SendOk(b)
  \/ \E b \in BatchIds : SendFail(b)

SpecQm == Init /\ [][QmNext]_vars

(* schedules for two recipients, one of them named twice in a list and *)
(* fired one after the other, the queue drain and a transport that     *)
(* answers                                                             *)
FifoLists == {<<N1>>, <<N2c, N2c, N1>>}

FifoNext ==
  \/ \E d \in {DelayMs, MinuteMs} : Tick(d)
  \/ \E rs \in FifoLists : (\A b \in BatchIds : batches[b].pc = "idle") /\ CronFire(rs)
  \/ \E b \in BatchIds : SendOk(b)
  \/ \E b \in BatchIds : DelayDone(b)
  \/ ProcessQueue
  \/ \E d \in DrainIds : DrainSendOk(d)

SpecFifo == InitBatch /\ [][FifoNext]_vars

(* ------------------- what was really recorded ------------------------- *)
(* the recordSent calls of the last windowMs milliseconds *)
RecordedIn(windowMs) ==
  {i \in 1..Len(recorded) : recorded[i].timestamp > now - windowMs}
RecordedFor(recipient, windowMs) ==
  {i \in RecordedIn(windowMs) : recorded[i].recipient = recipient}
OldestOf(idx) ==
  LET ts == {recorded[i].timestamp : i \in idx} IN CHOOSE t \in ts : \A u \in ts : t <= u

MinuteCount == Cardinality(RecordedIn(MinuteMs))
HourCount == Cardinality(RecordedIn(HourMs))
RecipientCount(r) == Cardinality(RecordedFor(r, MinuteMs))

(* C4: canSend returns Allow only if the samples recorded in the last 60 s *)
(* are fewer than the per-minute ceiling, those of the last 3600 s fewer   *)
(* than the per-hour ceiling, and the recipient's samples of the last 60 s *)
(* fewer than the per-recipient ceiling.                                   *)
C4_AllowOnlyUnderAllCeilings ==
  (lastCheck.made /\ lastCheck.res.allowed) =>
    /\ MinuteCount < MessagesPerMinute
    /\ HourCount < MessagesPerHour
    /\ lastCheck.recipient # NoRecipient =>
         RecipientCount(lastCheck.recipient) < PerRecipientLimit

(* C5: the reported reason is that of the first ceiling reached, in the    *)
(* order per-minute, per-hour, per-recipient; without a recipient the      *)
(* per-recipient check is skipped.                                         *)
C5_FirstFailureInOrder ==
  lastCheck.made =>
    /\ MinuteCount >= MessagesPerMinute => lastCheck.res.reason = "minute"
    /\ (MinuteCount < MessagesPerMinute /\ HourCount >= MessagesPerHour) =>
         lastCheck.res.reason = "hour"
    /\ lastCheck.res.reason = "recipient" =>
         /\ lastCheck.recipient # NoRecipient
         /\ MinuteCount < MessagesPerMinute
         /\ HourCount < MessagesPerHour

(* C6: with the global counts under their ceilings, canSend(r) is decided  *)
(* by r's own window alone: Deny with the per-recipient reason when r has  *)
(* reached its ceiling, Allow otherwise, whatever any other recipient has  *)
(* recorded; a recipient's window holds only that recipient's samples.     *)
C6_RecipientsIndependent ==
  /\ (/\ lastCheck.made
      /\ lastCheck.recipient # NoRecipient
      /\ MinuteCount < MessagesPerMinute
      /\ HourCount < MessagesPerHour) =>
        IF RecipientCount(lastCheck.recipient) >= PerRecipientLimit
          THEN ~lastCheck.res.allowed /\ lastCheck.res.reason = "recipient"
          ELSE lastCheck.res.allowed
  /\ \A k \in DOMAIN messageHistory :
        SumCount(After(messageHistory[k], now - MinuteMs)) = RecipientCount(k)

(* A is at its ceiling and canSend(B) has just allowed another recipient *)
C6_Witness ==
  /\ lastCheck.made /\ lastCheck.res.allowed
  /\ lastCheck.recipient # NoRecipient
  /\ \E a \in ApiRecipients \ {NoRecipient, lastCheck.recipient} :
        RecipientCount(a) >= PerRecipientLimit

Recent(h) == SumCount(After(h, now - MinuteMs))
SendsTo(chatId) == Cardinality({i \in 1..Len(sends) : sends[i].to = chatId})

(* C1: under any interleaving of batches and queue drains, the transport  *)
(* sends performed inside a 60-second window never exceed the global      *)
(* per-minute ceiling.                                                    *)
C1_SendsWithinCeiling == Len(sends) <= MessagesPerMinute

(* C2: a recipient that canSend denies when a schedule or a one-time job  *)
(* fires is handed to queueMessage and is in the retry queue afterwards.  *)
C2_DeniedIsQueued == \A d \in denials : d.queued

(* C3: a queued delivery leaves the retry queue only when its send action *)
(* succeeded or when it is older than one hour; one whose send action     *)
(* fails is still queued.                                                 *)
C3_LeavesOnlySentOrStale == lost = {}

(* C8: every successful transport send adds exactly one sample to the     *)
(* global window and one to the recipient's window, so the last-minute    *)
(* count equals the number of sends of the last 60 seconds.               *)
C8_OneSamplePerSend ==
  /\ Recent(globalHistory) = Len(sends)
  /\ \A k \in DOMAIN messageHistory : k.suffix => Recent(messageHistory[k]) = SendsTo(k)

(* C9: a denial by the admission controller is never thrown and caught as *)
(* a failed send, in a batch or in a queued send action.                  *)
C9_DenialNeverThrown == thrown = {}

ItemIds(seq) == {seq[i].id : i \in 1..Len(seq)}

(* C10: when processQueue calls overlap, no queued delivery has its send  *)
(* action invoked twice, and no delivery is held by two calls at once.    *)
C10_NoItemSentTwice ==
  /\ \A id \in DOMAIN items : items[id] <= 1
  /\ \A d1, d2 \in DrainIds :
       d1 # d2 => ItemIds(drains[d1].toProcess) \cap ItemIds(drains[d2].toProcess) = {}

(* a second processQueue started while the first awaits its send, and both *)
(* are sending                                                             *)
C10_Witness == \A d \in DrainIds : drains[d].pc = "sending"

(* C11: the queue drain is single-flight: at most one processQueue call   *)
(* is executing send actions at any time.                                 *)
C11_DrainSingleFlight ==
  Cardinality({d \in DrainIds : drains[d].pc = "sending"}) <= 1

(* C12: each one-time job is dispatched at most once per process run: no *)
(* job is selected by a second poll, overlapping or later.               *)
C12_DispatchedAtMostOnce == \A id \in DOMAIN selected : selected[id] <= 1

(* the jobs scheduler object i holds pending, and those already selected *)
(* that wait behind an earlier job of the same poll                      *)
PendingIds(i) == {pendingMessages[i][k].id : k \in 1..Len(pendingMessages[i])}
WaitingIds == UNION {{batches[b].todo[k].id : k \in 1..Len(batches[b].todo)} : b \in BatchIds}
DuePending(id) ==
  \E k \in 1..Len(pendingMessages[1]) :
     pendingMessages[1][k].id = id /\ pendingMessages[1][k].sendAt <= now

(* the run's clock has stopped before the next poll or delay timer is due *)
ClockStopped ==
  /\ ticks = MaxTicks
  /\ \/ pollElapsed[1] < PollIntervalMs
     \/ \E b \in BatchIds : batches[b].pc = "delay" /\ now < batches[b].wakeAt

(* C13: a pending job whose sendAt has passed is selected by the first    *)
(* poll that starts at or after sendAt (no poll leaves a due job          *)
(* pending), and with the poll timer firing it is eventually dispatched,  *)
(* also when it was added while an earlier dispatch was in progress.      *)
C13_DueJobEventuallyDispatched ==
  /\ [][\A i \in InstanceIds :
          (pollElapsed[i] >= PollIntervalMs /\ pollElapsed'[i] = 0) =>
             \A k \in 1..Len(pendingMessages'[i]) : pendingMessages'[i][k].sendAt > now]_vars
  /\ \A id \in 1..MaxBatchFires :
        DuePending(id) ~> ((id \notin PendingIds(1) /\ id \notin WaitingIds) \/ ClockStopped)

(* a job added while an earlier poll's send was awaited has been selected *)
(* by the next poll: two dispatches are in progress, nothing is pending   *)
C13_Witness ==
  /\ pendingMessages[1] = <<>>
  /\ \E b1, b2 \in BatchIds :
        /\ b1 # b2
        /\ batches[b1].kind = "onetime" /\ batches[b1].pc = "sending"
        /\ batches[b2].kind = "onetime" /\ batches[b2].pc = "sending"

(* ------------------- claims on the schedule table --------------------- *)
(* a definition with an id, a recipient or a non-empty recipient list, a *)
(* message and a syntactically valid cron expression                     *)
WellFormed(s) ==
  /\ s.id # ""
  /\ s.recipient # NoRecipient \/ (s.recipients.defined /\ s.recipients.list # <<>>)
  /\ s.message # ""
  /\ s.cron \in ValidCronExpressions

LiveTasks(ts, id) == {t \in 1..Len(ts) : ts[t].live /\ ts[t].schedule.id = id}
ListedAt(entries, id) ==
  {k \in 1..Len(GetSchedules(entries)) : GetSchedules(entries)[k].id = id}
KnownIds == {tasks[t].schedule.id : t \in 1..Len(tasks)} \cup {jobs[k].id : k \in 1..Len(jobs)}

(* C14: however often addSchedule is called with the same id, that id has *)
(* exactly one live timer, getSchedules lists it once, the timer is the   *)
(* one the table holds and it runs the definition registered last; the    *)
(* timers of earlier registrations are stopped.                           *)
C14_OneTimerPerId ==
  /\ [](\A id \in KnownIds :
          /\ Cardinality(LiveTasks(tasks, id)) <= 1
          /\ Cardinality(ListedAt(jobs, id)) = Cardinality(LiveTasks(tasks, id))
          /\ \A t \in LiveTasks(tasks, id) :
               JobsGet(jobs, id).task = t /\ JobsGet(jobs, id).schedule = tasks[t].schedule)
  /\ [][\A s \in ApiSchedules :
          (AddSchedule(s) /\ WellFormed(s)) =>
             /\ Cardinality(LiveTasks(tasks', s.id)) = 1
             /\ \A t \in LiveTasks(tasks', s.id) : tasks'[t].schedule = s
             /\ Cardinality(ListedAt(jobs', s.id)) = 1]_vars

(* an id was registered again with another definition: its first timer is *)
(* stopped and a later one is live                                        *)
C14_Witness ==
  \E t1, t2 \in 1..Len(tasks) :
     /\ t1 < t2
     /\ tasks[t1].schedule.id = tasks[t2].schedule.id
     /\ tasks[t1].schedule # tasks[t2].schedule
     /\ ~tasks[t1].live /\ tasks[t2].live

(* C15: addSchedule with a definition that lacks a required field or has  *)
(* an invalid cron expression installs no timer and leaves the table and  *)
(* every timer, also that of an active schedule of the same id, as they   *)
(* were.                                                                  *)
C15_InvalidDefinitionIsNoOp ==
  /\ [](\A t \in 1..Len(tasks) : WellFormed(tasks[t].schedule))
  /\ [][\A s \in ApiSchedules :
          (AddSchedule(s) /\ ~WellFormed(s)) => UNCHANGED <<jobs, tasks>>]_vars

(* a definition was just rejected whose id has an active schedule *)
C15_Witness ==
  \E id \in lastRejected : id # "" /\ JobsHas(jobs, id) /\ LiveTasks(tasks, id) # {}

(* ----------------------- claims on the supervisor ---------------------- *)
Running(r) == restarts[r].pc # "idle"
ClaimedWaits == <<5000, 7500, 11250, 16875, 25312, 37968>>

(* C16: the wait of restart attempt n is min(5000 * 1.5^(n-1), 60000) in *)
(* whole milliseconds: 5000, 7500, 11250, 16875, 25312, 37968 for the    *)
(* attempts 1..6; it never decreases from one attempt to the next and    *)
(* never exceeds the maximum delay                                       *)
C16_BackoffDelay ==
  /\ \A r \in RestartIds : Running(r) =>
       LET n == restarts[r].attempt
           wait == TimerMs(restarts[r].delay)
       IN  /\ wait = Min((5000 * Power(3, n - 1)) \div Power(2, n - 1), 60000)
           /\ n <= 6 => wait = ClaimedWaits[n]
           /\ wait <= MaxDelay
           /\ restarts[r].pc = "sleeping" => restarts[r].wakeAt <= now + wait
  /\ \A n \in 1..(MaxRetries - 1) : TimerMs(BackoffDelay(n)) <= TimerMs(BackoffDelay(n + 1))

C16_Witness ==
  \E r \in RestartIds :
     /\ restarts[r].pc = "sleeping"
     /\ restarts[r].attempt = 6
     /\ restarts[r].wakeAt = now + 37968

(* C19: at most one restart runs at a time; isRestarting is set exactly *)
(* while one runs, so it is released when the restart ends, whether the *)
(* reinitialisation succeeded or threw; a disconnect or error that      *)
(* arrives while a restart runs starts none and leaves the attempt      *)
(* counter as it was                                                    *)
C19_RestartSingleFlight ==
  /\ Cardinality({r \in RestartIds : Running(r)}) <= 1
  /\ isRestarting <=> \E r \in RestartIds : Running(r)
  /\ supEvent.kind \in {"disconnected", "error"} /\ supEvent.latched =>
       ~supEvent.started /\ supEvent.attemptsAfter = supEvent.attemptsBefore

C19_Witness ==
  /\ supEvent.kind \in {"disconnected", "error"}
  /\ supEvent.restartable
  /\ supEvent.latched
  /\ \E r \in RestartIds : Running(r)

(* C20: the attempt counter never exceeds the maximum, and a disconnect *)
(* or error that arrives when the counter is at the maximum starts no   *)
(* restart                                                              *)
C20_AttemptsBounded ==
  /\ restartAttempts <= MaxRetries
  /\ \A r \in RestartIds : Running(r) => restarts[r].attempt <= MaxRetries
  /\ supEvent.kind \in {"disconnected", "error"} /\ supEvent.attemptsBefore >= MaxRetries =>
       ~supEvent.started /\ supEvent.attemptsAfter = supEvent.attemptsBefore

C20_Witness ==
  /\ supEvent.kind \in {"disconnected", "error"}
  /\ supEvent.restartable
  /\ ~supEvent.latched
  /\ supEvent.attemptsBefore = MaxRetries
  /\ ~isRestarting
  /\ \A r \in RestartIds : ~Running(r)

(* ------------------------- claims on batches --------------------------- *)
(* C17: a recurring batch ends with successCount = the number of         *)
(* recipients sent directly, failCount = the number of recipients that   *)
(* were denied and queued or whose send failed, total = the length of    *)
(* the list and successCount + failCount = total                         *)
C17_BatchAggregate ==
  \A c \in completed : c.kind = "cron" =>
     /\ c.successCount = Len(c.did.directTo)
     /\ c.failCount = Len(c.did.queuedTo) + Len(c.did.faultedTo) + Len(c.did.refusedTo)
     /\ c.did.droppedTo = <<>>
     /\ c.total = Len(c.recipients)
     /\ c.successCount + c.failCount = c.total

(* [A, B, C] with only B denied: A and C sent directly, B in the queue, *)
(* the aggregate 2, 1, 3                                                *)
C17_Witness ==
  \E c \in completed :
     /\ c.kind = "cron"
     /\ c.recipients = <<N1, N2c, N3c>>
     /\ c.did.directTo = <<N1, N3c>>
     /\ c.did.queuedTo = <<N2c>>
     /\ c.successCount = 2 /\ c.failCount = 1 /\ c.total = 3
     /\ \E k \in 1..Len(queuedMessages) : queuedMessages[k].recipient = N2c

(* C18: a send the transport rejects is caught inside the loop: it is    *)
(* counted in failCount and every recipient of the list, the later ones  *)
(* included, is dealt with before the batch ends, in the recurring and   *)
(* in the one-time batch                                                 *)
C18_FailureCaught ==
  \A c \in completed : c.did.faultedTo # <<>> =>
     /\ c.failCount >= Len(c.did.faultedTo)
     /\ Len(c.did.directTo) + Len(c.did.queuedTo) + Len(c.did.droppedTo)
          + Len(c.did.refusedTo) + Len(c.did.faultedTo) = c.total
     /\ c.successCount + c.failCount = c.total

(* the send to the first recipient of a one-time batch failed and the *)
(* second was sent                                                    *)
C18_Witness ==
  \E c \in completed :
     /\ c.kind = "onetime"
     /\ c.did.faultedTo = <<c.recipients[1]>>
     /\ c.did.directTo = <<c.recipients[2]>>

(* C21: a 'ready' event sets the attempt counter to zero, also when the  *)
(* supervisor had given up; the next restartable disconnect or error     *)
(* that finds no restart running starts attempt 1 with the base delay    *)
C21_ReadyResetsAttempts ==
  /\ [](supEvent.kind = "ready" => supEvent.attemptsAfter = 0)
  /\ [][supEvent'.kind = "ready" => restartAttempts' = 0]_vars
  /\ [][(supEvent.kind = "ready" /\ ~isRestarting
         /\ supEvent'.kind \in {"disconnected", "error"} /\ supEvent'.restartable) =>
           /\ supEvent'.started
           /\ restartAttempts' = 1
           /\ \E r \in RestartIds :
                /\ restarts'[r].pc # "idle"
                /\ restarts'[r].attempt = 1
                /\ TimerMs(restarts'[r].delay) = InitialDelay]_vars

(* the supervisor had given up at the maximum and a 'ready' event came *)
C21_Witness ==
  /\ supEvent.kind = "ready"
  /\ supEvent.attemptsBefore = MaxRetries
  /\ restartAttempts = 0
  /\ ~isRestarting

(* C22: a disconnect with reason LOGOUT starts no restart: the latch, the *)
(* attempt counter, the running restarts and the pending                  *)
(* reinitialisations stay as they were; a disconnect whose reason         *)
(* contains a transient marker starts a restart when none runs and        *)
(* attempts remain                                                        *)
TransientReasons == {"NAVIGATION", "CONFLICT", "Protocol error: Target closed."}
C22_LogoutNeverRestarts ==
  /\ [](supEvent.kind = "disconnected" /\ supEvent.reason = "LOGOUT" =>
          ~supEvent.started /\ supEvent.attemptsAfter = supEvent.attemptsBefore)
  /\ [][supEvent'.kind = "disconnected" /\ supEvent'.reason = "LOGOUT" =>
          UNCHANGED <<isRestarting, restartAttempts, restarts, reinitTimers, looseInits>>]_vars
  /\ [](supEvent.kind = "disconnected" /\ supEvent.reason \in TransientReasons
          /\ ~supEvent.latched /\ supEvent.attemptsBefore < MaxRetries =>
             /\ supEvent.started
             /\ supEvent.attemptsAfter = supEvent.attemptsBefore + 1)
  /\ [][supEvent'.kind = "disconnected" /\ supEvent'.reason \in TransientReasons
          /\ ~isRestarting /\ restartAttempts < MaxRetries /\ supEvent' # supEvent =>
             isRestarting' /\ restartAttempts' = restartAttempts + 1]_vars

(* a LOGOUT arrived while nothing was running and attempts remained *)
C22_Witness ==
  /\ supEvent.kind = "disconnected" /\ supEvent.reason = "LOGOUT"
  /\ ~supEvent.latched
  /\ supEvent.attemptsBefore < MaxRetries
  /\ ~isRestarting
  /\ \A r \in RestartIds : ~Running(r)

(* C23: a restart whose client.initialize() failed with attempts left is *)
(* followed by another restart or by a connection, unless the transport *)
(* emits a further event first                                           *)
C23_FailedRestartIsRetried ==
  (supEvent.kind = "initfailed" /\ ~browser /\ ~isRestarting /\ restartAttempts < MaxRetries)
    ~> (isRestarting \/ supEvent.kind \in {"ready", "disconnected", "error"})

(* ------------------- claims on the end of the process ------------------ *)
(* the one-time jobs a running checkPendingMessages still holds *)
JobsHeld(b) ==
  (IF batches[b].kind = "onetime" /\ batches[b].pc # "idle" /\ batches[b].open
     THEN {batches[b].job} ELSE {})
  \cup {batches[b].todo[k].id : k \in 1..Len(batches[b].todo)}

StoredIds == {JsonParse(store)[k].id : k \in 1..Len(store)}

(* C24: when the process has ended, every one-time job whose dispatch was *)
(* not complete is in the persisted pending set, so that the next run     *)
(* loads and dispatches it; and what was saved is loaded unchanged        *)
C24_PendingSurvivesRestart ==
  /\ phase = "exited" => \A b \in BatchIds : JobsHeld(b) \subseteq StoredIds
  /\ \A i \in InstanceIds : JsonParse(JsonStringify(pendingMessages[i])) = pendingMessages[i]

(* C26: once the system is stopped no timer runs a handler: no task of a *)
(* recurring schedule is live, no poll runs checkPendingMessages and the *)
(* drain interval no longer runs processQueue                            *)
C26_StopDisposesTimers ==
  /\ [](phase # "running" => \A t \in 1..Len(tasks) : ~tasks[t].live)
  /\ [][phase # "running" => ~(\E i \in InstanceIds : pollElapsed[i] > pollElapsed'[i])]_vars
  /\ [][phase # "running" => ~(drainElapsed > drainElapsed')]_vars

(* C27: a batch that is in flight when the system is stopped has dealt *)
(* with every recipient of its list when the process ends              *)
C27_InFlightBatchCompletes ==
  phase = "exited" => \A b \in BatchIds : batches[b].pc = "idle"

(* ------------------- claims on the queue's progress -------------------- *)
QueuedIds == {queuedMessages[k].id : k \in 1..Len(queuedMessages)}

(* the interval ran processQueue in this step *)
DrainRan == drainElapsed >= DrainIntervalMs /\ drainElapsed' = 0

(* the clock of the model has stopped before another drain *)
NoDrainToCome == ticks = MaxTicks /\ drainElapsed < DrainIntervalMs

(* every queued message leaves the queue while the drain keeps running *)
C25_EventuallyLeaves ==
  \A id \in 1..MaxFires : (id \in QueuedIds) ~> (id \notin QueuedIds \/ NoDrainToCome)

(* a drain leaves in the queue only messages that canSend denies and *)
(* that are not older than an hour                                   *)
C25_LeavesAtFirstDrain ==
  [][DrainRan =>
       \A k \in 1..Len(queuedMessages') :
          /\ now - queuedMessages'[k].addedAt <= StaleMs
          /\ ~CanSend(globalHistory', messageHistory', queuedMessages'[k].recipient,
                      now).res.allowed]_vars

(* C25: every message on the retry queue eventually leaves it, the drain *)
(* interval firing and time advancing: the first drain at which canSend  *)
(* allows its recipient sends it, the first drain at which it is denied  *)
(* and older than an hour drops it, and it leaves in no other way        *)
C25_QueuedEventuallySentOrStale ==
  /\ C25_EventuallyLeaves
  /\ C25_LeavesAtFirstDrain
  /\ [](lost = {})

(* ------------------------ claims on the batch loop --------------------- *)
(* how many recipients of its list batch b has dealt with *)
DealtWith(b) ==
  Len(batches[b].did.directTo) + Len(batches[b].did.queuedTo) + Len(batches[b].did.droppedTo)
    + Len(batches[b].did.refusedTo) + Len(batches[b].did.faultedTo)

(* C28: a batch deals with its recipients one after the other in list    *)
(* order: while it is at position i every earlier position has been      *)
(* sent, has failed or was queued, and at most one transport send of the *)
(* batch is in flight                                                    *)
C28_RecipientsSequential ==
  \A b \in BatchIds :
     /\ batches[b].inFlight <= 1
     /\ batches[b].inFlight = 1 <=> InFlight(b)
     /\ batches[b].pc \in {"idle", "sending", "qsending", "delay"}
     /\ InFlight(b) => DealtWith(b) = batches[b].idx - 1
     /\ batches[b].pc = "delay" => DealtWith(b) = batches[b].idx

(* a batch awaits the send to its second recipient, the first one sent *)
C28_Witness ==
  \E b \in BatchIds :
     /\ batches[b].kind = "onetime"
     /\ batches[b].pc = "sending"
     /\ batches[b].idx = 2
     /\ batches[b].did.directTo = <<batches[b].recipients[1]>>
     /\ batches[b].inFlight = 1

(* C29: the 3 s delay follows every successful direct send except the  *)
(* one to the last position of the list, whatever the list: a batch    *)
(* never sleeps after its final recipient, and a successful send to an *)
(* earlier position is always followed by the delay                    *)
C29_DelayBetweenRecipients ==
  /\ [](\A b \in BatchIds :
          batches[b].pc = "delay" => batches[b].idx < Len(batches[b].recipients))
  /\ [][\A b \in BatchIds :
          (/\ batches[b].pc = "sending"
           /\ batches[b].idx < Len(batches[b].recipients)
           /\ Len(batches'[b].did.directTo) > Len(batches[b].did.directTo)
           /\ batches'[b].recipients = batches[b].recipients)
            => (batches'[b].pc = "delay" /\ batches'[b].wakeAt = now + DelayMs)]_vars

(* -------------------- claims on one drain of the queue ----------------- *)
(* the sends the per-minute ceiling still allows *)
FreeSlots ==
  IF Recent(globalHistory) >= MessagesPerMinute THEN 0
  ELSE MessagesPerMinute - Recent(globalHistory)

(* the queued messages that are not older than an hour *)
Fresh(q) == SelectSeq(q, LAMBDA item : now - item.addedAt <= StaleMs)

(* C30: one drain checks, sends and records its items one at a time, so *)
(* with k free slots under the per-minute ceiling and more than k       *)
(* queued messages it takes at most k of them and keeps the rest queued *)
C30_DrainTakesAtMostFreeSlots ==
  [][(DrainRan /\ Len(Fresh(queuedMessages)) > FreeSlots)
       => Len(queuedMessages') >= Len(Fresh(queuedMessages)) - FreeSlots]_vars

(* ------------------- claims on the order of the queue ------------------ *)
Members(q) == {q[k] : k \in 1..Len(q)}
PositionIn(q, x) == CHOOSE k \in 1..Len(q) : q[k] = x

(* s holds members of t only, in the order they have in t *)
InOrderOf(s, t) ==
  /\ Members(s) \subseteq Members(t)
  /\ \A i, j \in 1..Len(s) : i < j => PositionIn(t, s[i]) < PositionIn(t, s[j])

(* s is what is left of t when some of its first members are taken *)
IsSuffix(s, t) == Len(s) <= Len(t) /\ s = SubSeq(t, Len(t) - Len(s) + 1, Len(t))

(* the members of q' that were in q, and those that were not *)
StayedQueued == SelectSeq(queuedMessages', LAMBDA x : x \in Members(queuedMessages))
NewlyQueued == SelectSeq(queuedMessages', LAMBDA x : x \notin Members(queuedMessages))

(* C31: the retry queue is first-in first-out: the messages that stay   *)
(* queued keep their order, a message that is enqueued comes after all  *)
(* that are queued, also while a drain is sending, and a drain invokes  *)
(* the send actions of the messages it took in the order of the queue   *)
C31_QueueIsFifo ==
  /\ [][/\ InOrderOf(StayedQueued, queuedMessages)
        /\ queuedMessages' = StayedQueued \o NewlyQueued]_vars
  /\ [][\A d \in DrainIds :
          IF drains[d].pc = "idle"
            THEN /\ InOrderOf(drains'[d].toProcess, queuedMessages)
                 /\ \A x \in Members(drains'[d].toProcess), y \in Members(queuedMessages) :
                       (y \notin Members(drains'[d].toProcess)
                          /\ y \notin Members(queuedMessages')
                          /\ now - y.addedAt <= StaleMs)
                         => PositionIn(queuedMessages, y) < PositionIn(queuedMessages, x)
            ELSE IsSuffix(drains'[d].toProcess, drains[d].toProcess)]_vars

(* while a drain is sending a message, another one for the same *)
(* recipient was enqueued behind one the drain had left queued   *)
C31_Witness ==
  \E d \in DrainIds :
     /\ drains[d].pc = "sending"
     /\ Len(queuedMessages) = 2
     /\ queuedMessages[1].recipient # Head(drains[d].toProcess).recipient
     /\ queuedMessages[2].recipient = Head(drains[d].toProcess).recipient
     /\ queuedMessages[2].addedAt > Head(drains[d].toProcess).addedAt

(* ------------------------ claims on queueMessage ----------------------- *)
(* C32: queueMessage ends in one of two ways: the message is in the     *)
(* queue, which has grown by one, or canSend allowed, the queue is as   *)
(* it was, and when the call returns the send action has sent the       *)
(* message and one sample is recorded for it                            *)
C32_SentOrQueued ==
  /\ [][fires' = fires + 1 =>
          \/ /\ Len(queuedMessages') = Len(queuedMessages) + 1
             /\ batches' = batches
          \/ /\ queuedMessages' = queuedMessages
             /\ \E b \in BatchIds : batches[b].pc = "idle" /\ batches'[b].pc = "qsending"]_vars
  /\ [][\A b \in BatchIds :
          (batches[b].kind = "queue" /\ batches[b].pc = "qsending" /\ batches'[b].pc = "idle")
            => /\ Len(sends') = Len(sends) + 1
               /\ queuedMessages' = queuedMessages
               /\ SumCount(After(globalHistory', now - MinuteMs))
                    = SumCount(After(globalHistory, now - MinuteMs)) + 1]_vars

(* --------------------------- claims on getStats ------------------------ *)
Stats == GetStats(globalHistory, messageHistory, queuedMessages, now)

(* C33: getStats is a faithful snapshot: lastMinute is the number of   *)
(* samples recorded in the last 60 s, lastHour the number recorded in  *)
(* the last 3600 s, queued the length of the queue, and a canSend call *)
(* changes none of the three                                           *)
C33_StatsFaithful ==
  /\ [](/\ Stats.lastMinute = Cardinality(RecordedIn(MinuteMs))
        /\ Stats.lastHour = Cardinality(RecordedIn(HourMs))
        /\ Stats.queued = Len(queuedMessages))
  /\ [][(lastCheck'.made /\ now' = now /\ recorded' = recorded) =>
          /\ GetStats(globalHistory', messageHistory', queuedMessages', now).lastMinute
               = Stats.lastMinute
          /\ GetStats(globalHistory', messageHistory', queuedMessages', now).lastHour
               = Stats.lastHour
          /\ GetStats(globalHistory', messageHistory', queuedMessages', now).queued
               = Stats.queued]_vars

(* ---------------------- claims on the pending jobs --------------------- *)
PollRan == pollElapsed[1] >= PollIntervalMs /\ pollElapsed'[1] = 0

(* the ids of the jobs this step selected for dispatch *)
NewlySelected ==
  {id \in DOMAIN selected' : id \notin DOMAIN selected \/ selected'[id] > selected[id]}

(* C34: a poll dispatches exactly the pending jobs whose sendAt is not  *)
(* after now, keeps the others pending in their order, and adding a job *)
(* appends it and leaves the pending ones as they are                   *)
C34_NeverBeforeFireTime ==
  /\ [][PollRan =>
          /\ pendingMessages'[1] = SelectSeq(pendingMessages[1], LAMBDA m : m.sendAt > now)
          /\ NewlySelected = {pendingMessages[1][k].id : k \in
                                {j \in 1..Len(pendingMessages[1]) :
                                    pendingMessages[1][j].sendAt <= now}}]_vars
  /\ [][fires' = fires + 1 =>
          /\ Len(pendingMessages'[1]) = Len(pendingMessages[1]) + 1
          /\ SubSeq(pendingMessages'[1], 1, Len(pendingMessages[1])) = pendingMessages[1]
          /\ NewlySelected = {}]_vars

(* a poll has dispatched the due job and kept two later ones pending, *)
(* in the order they were added                                       *)
C34_Witness ==
  /\ Len(pendingMessages[1]) = 2
  /\ pendingMessages[1][1].sendAt > now /\ pendingMessages[1][2].sendAt > now
  /\ pendingMessages[1][1].sendAt > pendingMessages[1][2].sendAt
  /\ \E b \in BatchIds :
        /\ batches[b].kind = "onetime" /\ batches[b].pc = "sending"
        /\ batches[b].job > pendingMessages[1][1].id

(* ------------------- claims on the schedule table ---------------------- *)
(* the entry of id in the table, if any *)
EntryOf(entries, id) == {entries[k] : k \in {j \in 1..Len(entries) : entries[j].id = id}}

(* C35: removeSchedule(id) stops the timer of an active id and removes   *)
(* its entry, so that no timer is left to start a batch for it, leaves   *)
(* every other schedule and its timer as they were, and changes nothing  *)
(* for an id that is not registered                                      *)
C35_RemoveScheduleFrame ==
  [][\A id \in ScheduleIds :
       RemoveSchedule(id) =>
          /\ LiveTasks(tasks', id) = {}
          /\ EntryOf(jobs', id) = {}
          /\ \A other \in KnownIds \ {id} :
                /\ LiveTasks(tasks', other) = LiveTasks(tasks, other)
                /\ EntryOf(jobs', other) = EntryOf(jobs, other)
          /\ \A t \in 1..Len(tasks) : tasks'[t].schedule = tasks[t].schedule
          /\ Len(tasks') = Len(tasks)
          /\ EntryOf(jobs, id) = {} => UNCHANGED <<jobs, tasks>>]_vars

(* a schedule was removed while the scheduler runs: its timer is stopped, *)
(* its id is not listed, and another schedule is active                   *)
C35_Witness ==
  /\ isRunning
  /\ \E t \in 1..Len(tasks) :
        /\ ~tasks[t].live
        /\ LiveTasks(tasks, tasks[t].schedule.id) = {}
        /\ EntryOf(jobs, tasks[t].schedule.id) = {}
  /\ \E k \in 1..Len(jobs) : tasks[jobs[k].task].live

(* the two states of a schedule id *)
Active(id) == EntryOf(jobs, id) # {} /\ Cardinality(LiveTasks(tasks, id)) = 1
Unregistered(id) == EntryOf(jobs, id) = {} /\ LiveTasks(tasks, id) = {}

(* the ids the configuration gives an enabled, valid definition *)
ConfiguredIds ==
  {configSchedules[k].id : k \in {j \in 1..Len(configSchedules) :
      configSchedules[j].enabled /\ WellFormed(configSchedules[j])}}

C37_FailedSendIsQueued ==
  [][\A b \in BatchIds :
       (InFlight(b) /\ batches[b].kind = "cron" /\ failures' = failures + 1
          /\ batches'[b] # batches[b])
         => \E k \in 1..Len(queuedMessages') :
               /\ queuedMessages'[k].recipient = batches[b].recipients[batches[b].idx]
               /\ queuedMessages'[k] \notin Members(queuedMessages)]_vars

(* ---------------- claims on the transport's reinitialisation ----------- *)
(* the client.initialize() calls that have not settled: those of *)
(* restartBrowser and those of the timers of index.js            *)
InitializesInFlight ==
  Cardinality({r \in RestartIds : restarts[r].pc = "initializing"}) + looseInits

(* C38: the single-flight latch of the supervisor covers every        *)
(* reinitialisation of the transport: whatever handlers a disconnect  *)
(* reaches, at most one client.initialize() is in flight at any time  *)
C38_OneReinitialisation == InitializesInFlight <= 1

(* ---------------- claims on jobs authored beside the service ----------- *)
(* the ids of the jobs the service's scheduler object holds pending *)
ServicePendingIds == {pendingMessages[1][k].id : k \in 1..Len(pendingMessages[1])}

(* the service starts again after its exit *)
Restarted == phase = "exited" /\ phase' = "running"

(* C39: a job the authoring flow appended to the jobs file while the   *)
(* service was up is not lost: when the service has been restarted the *)
(* job is in its pending set, unless an earlier run already took it    *)
(* for dispatch                                                        *)
C39_AuthoredJobSurvivesRestart ==
  [][Restarted => \A id \in 1..fires : id \in ServicePendingIds' \/ id \in DOMAIN selected]_vars

====
